---- MODULE Spec2Model ----
(***************************************************************************)
(* A model of the Zenith expense tracker's relational store (the           *)
(* useAppData hook) and of the handlers of App.tsx and Settings.tsx that   *)
(* drive it.                                                               *)
(*                                                                         *)
(* The React state `data` is one record of six lists.  A store operation   *)
(* has two parts: what it computes from the `data` of the render whose     *)
(* closure it runs in (the      *_new / *_ok operators below take that     *)
(* closure as `d`), and the functional update handed to setData, which     *)
(* React applies to the latest state (`prev`).  One action is one event:   *)
(* the handler runs against the closure of the last render, its setData    *)
(* updates are applied in order, and the component renders again.          *)
(*                                                                         *)
(* crypto.randomUUID() is a draw that never repeats: a counter per kind of *)
(* entity (ids).  Strings whose characters matter (emails, passwords) are  *)
(* sequences of character codes.                                           *)
(***************************************************************************)
EXTENDS Integers, Sequences, FiniteSets, TLC

VARIABLES
    data,             \* useAppData: the AppData snapshot
    ids,              \* the randomUUID() draws made so far, per kind
    currentUser,      \* App: the logged-in User object (NoUser = null)
    activeProfileId,  \* App: the active profile id (NoId = null)
    form,             \* Transactions / TransactionForm: the open form and its fields
    csv,              \* DataManagement: the chosen file, the feedback, a read in progress
    settings,         \* Settings: whether the page is shown, and the ProfileManager's fields
    details,          \* Transactions / TransactionDetailModal: the transaction viewed, files being read
    localStorage,     \* the browser's localStorage: the saved item, and whether it is full
    last              \* the last event: its name, inputs and result

vars == <<data, ids, currentUser, activeProfileId, form, csv, settings, details, localStorage, last>>

(***************************************************************************)
(* Bounds of the model.                                                    *)
(***************************************************************************)
MaxUserIds == 2
MaxProfileIds == 2
MaxTxIds == 2
\* The categories and income sources deleted.
MaxItemDeletes == 2
MaxDemoLogins == 1
\* The users ever created where only the user list is exercised.
MaxAccounts == 3
\* The data rows of a CSV file, and the files chosen for import.
MaxCsvRows == 2
MaxCurrencies == 4
\* The attachments made in the details view.
MaxAttachments == 2
MaxCsvFiles == 1

(***************************************************************************)
(* Values.                                                                 *)
(***************************************************************************)
ADMIN == "admin"
USER == "user"
Roles == {ADMIN, USER}

INCOME == "income"
EXPENSE == "expense"

CASH == "cash"
CREDIT == "credit"
BANK == "bank"

NoId == 0
\* A Category / IncomeSource id: `${profileId}-${uuid}` for a seeded default
\* (p is the profile id), a bare uuid otherwise (p = 0).
ItemId(p, u) == [p |-> p, u |-> u]
NoItem == ItemId(0, 0)

NoUser == [id |-> NoId, email |-> <<>>, passwordHash |-> 0, role |-> "none"]
NoProfile == [id |-> NoId, name |-> "", currencyCode |-> "", userId |-> NoId]
\* A Transaction; categoryId / sourceId are NoItem when the key is absent or ''.
NoTx ==
    [id |-> NoId, profileId |-> NoId, type |-> "", amount |-> 0, description |-> "",
     date |-> "", paymentMethod |-> "", categoryId |-> NoItem, sourceId |-> NoItem,
     attachments |-> <<>>]

\* Character codes of the strings the model reads character by character.
EmailLowerA == <<97, 64, 98>>      \* "a@b"
EmailUpperA == <<65, 64, 98>>      \* "A@b"
EmailC == <<99, 64, 98>>           \* "c@b"
DEMO_EMAIL == <<100, 101, 109, 111, 64, 101, 120, 97, 109, 112, 108, 101, 46, 99, 111, 109>>
PasswordDemo == <<100, 101, 109, 111>>                                   \* "demo"
PasswordReset == <<112, 97, 115, 115, 119, 111, 114, 100, 49, 50, 51>>   \* "password123"
PasswordPw == <<112, 119>>                                               \* "pw"

(***************************************************************************)
(* Sequence helpers (Array.prototype.filter / findIndex).                    *)
(***************************************************************************)
Range(s) == {s[i] : i \in DOMAIN s}

\* Array.prototype.filter is SelectSeq.

\* Array.prototype.findIndex: the first index that satisfies `test`, 0 for -1.
\* `hits` is the set of indices whose element satisfies the test.
FindIndex(hits) ==
    IF hits # {}
    THEN CHOOSE i \in hits : \A j \in hits : i <= j
    ELSE 0

\* String.prototype.toUpperCase on character codes.
ToUpperCase(str) == [i \in DOMAIN str |-> IF str[i] >= 97 /\ str[i] <= 122 THEN str[i] - 32 ELSE str[i]]

\* String.prototype.toLowerCase on character codes.
ToLowerCase(str) == [i \in DOMAIN str |-> IF str[i] >= 65 /\ str[i] <= 90 THEN str[i] + 32 ELSE str[i]]

(***************************************************************************)
(* simpleHash: hash = ((hash << 5) - hash + char) | 0 over the characters, *)
(* a 32-bit signed value.  Computed on two 16-bit halves.                  *)
(***************************************************************************)
RECURSIVE HashHalves(_, _, _)
HashHalves(str, hi, lo) ==
    IF str = <<>> THEN <<hi, lo>>
    ELSE LET l == 31 * lo + Head(str)
             h == 31 * hi + (l \div 65536)
         IN HashHalves(Tail(str), h % 65536, l % 65536)

simpleHash(str) ==
    LET hl == HashHalves(str, 0, 0)
    IN IF hl[1] >= 32768 THEN (hl[1] - 65536) * 65536 + hl[2] ELSE hl[1] * 65536 + hl[2]

(***************************************************************************)
(* Text.  A string the store holds is a TLC string; where its characters   *)
(* matter (a CSV file) it is the sequence of its character codes, and      *)
(* Words gives the characters of every string the bounded inputs can put   *)
(* in the store or in a file.                                              *)
(***************************************************************************)
Words ==
    "" :> <<>> @@
    "date" :> <<100, 97, 116, 101>> @@
    "description" :> <<100, 101, 115, 99, 114, 105, 112, 116, 105, 111, 110>> @@
    "amount" :> <<97, 109, 111, 117, 110, 116>> @@
    "type" :> <<116, 121, 112, 101>> @@
    "paymentMethod" :> <<112, 97, 121, 109, 101, 110, 116, 77, 101, 116, 104, 111, 100>> @@
    "category" :> <<99, 97, 116, 101, 103, 111, 114, 121>> @@
    "source" :> <<115, 111, 117, 114, 99, 101>> @@
    "note" :> <<110, 111, 116, 101>> @@
    "expense" :> <<101, 120, 112, 101, 110, 115, 101>> @@
    "income" :> <<105, 110, 99, 111, 109, 101>> @@
    "bank" :> <<98, 97, 110, 107>> @@
    "cash" :> <<99, 97, 115, 104>> @@
    "credit" :> <<99, 114, 101, 100, 105, 116>> @@
    "bank\r" :> <<98, 97, 110, 107, 13>> @@
    "card" :> <<99, 97, 114, 100>> @@
    "usd" :> <<117, 115, 100>> @@
    "USD" :> <<85, 83, 68>> @@
    "gbp" :> <<103, 98, 112>> @@
    "GBP" :> <<71, 66, 80>> @@
    "CASH" :> <<67, 65, 83, 72>> @@
    "transfer" :> <<116, 114, 97, 110, 115, 102, 101, 114>> @@
    "Expense" :> <<69, 120, 112, 101, 110, 115, 101>> @@
    "Housing" :> <<72, 111, 117, 115, 105, 110, 103>> @@
    "Food" :> <<70, 111, 111, 100>> @@
    "Transport" :> <<84, 114, 97, 110, 115, 112, 111, 114, 116>> @@
    "Utilities" :> <<85, 116, 105, 108, 105, 116, 105, 101, 115>> @@
    "Shopping" :> <<83, 104, 111, 112, 112, 105, 110, 103>> @@
    "Entertainment" :> <<69, 110, 116, 101, 114, 116, 97, 105, 110, 109, 101, 110, 116>> @@
    "Health" :> <<72, 101, 97, 108, 116, 104>> @@
    "Salary" :> <<83, 97, 108, 97, 114, 121>> @@
    "Freelance" :> <<70, 114, 101, 101, 108, 97, 110, 99, 101>> @@
    "Nope" :> <<78, 111, 112, 101>> @@
    "Rent" :> <<82, 101, 110, 116>> @@
    "a,b" :> <<97, 44, 98>> @@
    "a\"b" :> <<97, 34, 98>> @@
    "keep" :> <<107, 101, 101, 112>> @@
    "2024-01-02" :> <<50, 48, 50, 52, 45, 48, 49, 45, 48, 50>> @@
    "2024-01-02T00:00:00.000Z" :> <<50, 48, 50, 52, 45, 48, 49, 45, 48, 50, 84, 48, 48, 58, 48, 48, 58, 48, 48, 46, 48, 48, 48, 90>> @@
    "x" :> <<120>> @@
    "100" :> <<49, 48, 48>> @@
    "1x" :> <<49, 120>> @@
    "7" :> <<55>>

Chars(w) == Words[w]
Str(chars) == CHOOSE w \in DOMAIN Words : Words[w] = chars

Comma == 44
Quote == 34
LineFeed == 10
CarriageReturn == 13
WhiteSpace == {9, 10, 11, 12, 13, 32}
Digits == 48..57

\* undefined: an array element or property that is not there.
Undefined == << -2 >>

\* !x for a string or undefined.
Falsy(x) == x = Undefined \/ x = <<>>

\* String.prototype.split(sep) for a one-character separator.
Split(s, sep) ==
    LET P == {i \in DOMAIN s : s[i] = sep}
        n == Cardinality(P)
        Nth(k) == CHOOSE i \in P : Cardinality({j \in P : j <= i}) = k
        first(k) == IF k = 1 THEN 1 ELSE Nth(k - 1) + 1
        final(k) == IF k = n + 1 THEN Len(s) ELSE Nth(k) - 1
    IN [k \in 1..(n + 1) |-> SubSeq(s, first(k), final(k))]

\* Array.prototype.join(sep).
RECURSIVE Join(_, _)
Join(parts, sep) ==
    IF parts = <<>> THEN <<>>
    ELSE IF Len(parts) = 1 THEN parts[1]
    ELSE parts[1] \o sep \o Join(Tail(parts), sep)

\* String.prototype.trim.
Trim(s) ==
    LET ink == {i \in DOMAIN s : s[i] \notin WhiteSpace}
    IN IF ink = {} THEN <<>>
       ELSE SubSeq(s, CHOOSE i \in ink : \A j \in ink : i <= j,
                      CHOOSE i \in ink : \A j \in ink : j <= i)

RECURSIVE DigitsValue(_)
DigitsValue(ds) ==
    IF ds = <<>> THEN 0 ELSE 10 * DigitsValue(SubSeq(ds, 1, Len(ds) - 1)) + (ds[Len(ds)] - 48)

\* parseFloat: leading white space, a sign, then the longest run of digits; NaN
\* when there is no digit.  (A '.', an exponent or "Infinity" would be read
\* further; no text drawn here holds one.)
parseFloat(x) ==
    LET Number(body, negative) ==
            LET n == CHOOSE k \in 0..Len(body) :
                        /\ \A i \in 1..k : body[i] \in Digits
                        /\ k = Len(body) \/ body[k + 1] \notin Digits
                value == DigitsValue(SubSeq(body, 1, n))
            IN [nan |-> n = 0, value |-> IF negative THEN 0 - value ELSE value]
        Signed(t) ==
            IF t # <<>> /\ t[1] \in {43, 45} THEN Number(Tail(t), t[1] = 45) ELSE Number(t, FALSE)
        ink == {i \in DOMAIN x : x[i] \notin WhiteSpace}
    IN Signed(IF ink = {} THEN <<>> ELSE SubSeq(x, CHOOSE i \in ink : \A j \in ink : i <= j, Len(x)))

\* String(n) for an integer.
RECURSIVE NumberToString(_)
NumberToString(n) ==
    IF n < 0 THEN <<45>> \o NumberToString(0 - n)
    ELSE IF n < 10 THEN <<48 + n>>
    ELSE NumberToString(n \div 10) \o <<48 + (n % 10)>>

\* s.replace(/"/g, '""').
RECURSIVE DoubleQuotes(_)
DoubleQuotes(s) ==
    IF s = <<>> THEN <<>>
    ELSE (IF Head(s) = Quote THEN <<Quote, Quote>> ELSE <<Head(s)>>) \o DoubleQuotes(Tail(s))

\* s.replace(/^"|"$/g, ''): a quote at the start and a quote at the end go.
StripQuotes(s) ==
    LET a == IF s # <<>> /\ s[1] = Quote THEN Tail(s) ELSE s
    IN IF a # <<>> /\ a[Len(a)] = Quote THEN SubSeq(a, 1, Len(a) - 1) ELSE a

\* s.replace(/""/g, '"'): pairs of quotes, from the left.
RECURSIVE UndoubleQuotes(_)
UndoubleQuotes(s) ==
    IF Len(s) >= 2 /\ s[1] = Quote /\ s[2] = Quote THEN <<Quote>> \o UndoubleQuotes(SubSeq(s, 3, Len(s)))
    ELSE IF s = <<>> THEN <<>>
    ELSE <<Head(s)>> \o UndoubleQuotes(Tail(s))

\* new Date(s) for the date-only form YYYY-MM-DD: valid when the month and the day
\* exist.  Every other text is taken as an Invalid Date; the ones drawn here hold
\* no digit, which no engine reads as a date.
ValidDate(s) ==
    /\ s # Undefined /\ Len(s) = 10
    /\ \A i \in {1, 2, 3, 4, 6, 7, 9, 10} : s[i] \in Digits
    /\ s[5] = 45 /\ s[8] = 45
    /\ LET month == DigitsValue(SubSeq(s, 6, 7))
           day == DigitsValue(SubSeq(s, 9, 10))
       IN month \in 1..12 /\ day \in 1..28

\* new Date(s).toISOString() for a valid date-only s: midnight UTC of that day.
toISOString(s) == s \o <<84, 48, 48, 58, 48, 48, 58, 48, 48, 46, 48, 48, 48, 90>>

\* isoString.split('T')[0].
DatePart(s) == Split(s, 84)[1]

(***************************************************************************)
(* constants.ts                                                            *)
(***************************************************************************)
DEFAULT_CATEGORIES == <<"Housing", "Food", "Transport", "Utilities", "Shopping", "Entertainment", "Health">>
DEFAULT_INCOME_SOURCES == <<"Salary", "Freelance">>
DEFAULT_CURRENCIES ==
    << [code |-> "USD", symbol |-> "$", name |-> "US Dollar"],
       [code |-> "EUR", symbol |-> "E", name |-> "Euro"] >>

(***************************************************************************)
(* AuthPage.handleDemoLogin, lines 116-127: the sample transactions, with  *)
(* the name getCatId / getSourceId is called with.  Amounts are in cents,  *)
(* and a date is the day of the current month.                             *)
(***************************************************************************)
Sample(type, amount, description, day, name, paymentMethod) ==
    [type |-> type, amount |-> amount, description |-> description, date |-> day,
     name |-> name, paymentMethod |-> paymentMethod]

SampleTransactions ==
    << Sample(INCOME, 250000, "Monthly Salary", "01", "Salary", BANK),
       Sample(INCOME, 30000, "Website Design Project", "15", "Freelance", BANK),
       Sample(EXPENSE, 120000, "Rent Payment", "02", "Housing", BANK),
       Sample(EXPENSE, 15075, "Weekly Groceries", "05", "Food", CREDIT),
       Sample(EXPENSE, 525, "Morning Coffee", "06", "Food", CASH),
       Sample(EXPENSE, 4550, "Gas fill-up", "08", "Transport", CREDIT),
       Sample(EXPENSE, 8520, "Electricity Bill", "12", "Utilities", BANK),
       Sample(EXPENSE, 7899, "New Shoes", "18", "Shopping", CREDIT),
       Sample(EXPENSE, 2500, "Movie Night", "21", "Entertainment", CASH),
       Sample(EXPENSE, 3000, "Pharmacy", "22", "Health", CASH) >>

(***************************************************************************)
(* useAppData: the initial state when nothing is saved.                    *)
(***************************************************************************)
EmptyData ==
    [users |-> <<>>, profiles |-> <<>>, transactions |-> <<>>,
     categories |-> <<>>, incomeSources |-> <<>>, currencies |-> DEFAULT_CURRENCIES]

\* The sizes of a snapshot's collections.
Sizes(d) ==
    [users |-> Len(d.users), profiles |-> Len(d.profiles), transactions |-> Len(d.transactions),
     categories |-> Len(d.categories), incomeSources |-> Len(d.incomeSources),
     currencies |-> Len(d.currencies)]

(***************************************************************************)
(* Persistence (useAppData, lines 16-41).  localStorage holds the item     *)
(* 'zenithFinanceData' and is full or not: when it is full setItem throws. *)
(* An item is absent ("none"), the JSON text of a snapshot ("json") or     *)
(* text that JSON.parse rejects ("text").                                  *)
(***************************************************************************)
NoItemSaved == [kind |-> "none", value |-> EmptyData]
UnparsableItem == [kind |-> "text", value |-> EmptyData]

\* JSON.stringify(data), line 37.
Stringify(d) == [kind |-> "json", value |-> d]

\* What a call of the suggestion service comes to: whether the client exists (the
\* API key is set), whether the call failed, and the text of the response.
NoReply == [ai |-> FALSE, failed |-> FALSE, text |-> <<>>]

\* The record of an event: its name, its inputs (userId, profileId, code, role,
\* itemId, tx, reply, email), its result (ok, user, profile, outcome), the sizes of the
\* snapshot it started from, and whether that snapshot was not the saved item
\* (unsaved).
NoEvent ==
    [op |-> "init", userId |-> NoId, profileId |-> NoId, code |-> "", role |-> "none",
     ok |-> TRUE, user |-> NoUser, profile |-> NoProfile, outcome |-> "",
     itemId |-> NoItem, tx |-> NoTx, reply |-> NoReply,
     email |-> <<>>, pre |-> Sizes(EmptyData), unsaved |-> FALSE]

Event(op, d) ==
    [NoEvent EXCEPT !.op = op, !.pre = Sizes(d), !.unsaved = (localStorage.item # Stringify(d))]

(***************************************************************************)
(* useAppData: the store operations.                                       *)
(***************************************************************************)
\* addUser with the role test off by one (`length <= 1`).
addUser_new_offByOne(d, user, uuid) ==
    [id |-> uuid, email |-> user.email, passwordHash |-> user.passwordHash,
     role |-> IF Len(d.users) <= 1 THEN ADMIN ELSE USER]

\* addUser giving Admin to the first user ever created only.
addUser_new_firstEver(d, user, uuid) ==
    [id |-> uuid, email |-> user.email, passwordHash |-> user.passwordHash,
     role |-> IF uuid = 1 THEN ADMIN ELSE USER]

\* addUser, lines 44-45: the role is read from the closure's data.
addUser_new(d, user, uuid) ==
    [id |-> uuid, email |-> user.email, passwordHash |-> user.passwordHash,
     role |-> IF Len(d.users) = 0 THEN ADMIN ELSE USER]

\* addUser, line 46.
addUser_update(prev, newUser) == [prev EXCEPT !.users = Append(@, newUser)]

\* addProfile, line 51.
addProfile_new(userId, profile, uuid) ==
    [id |-> uuid, name |-> profile.name, currencyCode |-> profile.currencyCode, userId |-> userId]

\* addProfile keeping each template's own id instead of drawing one.
addProfile_categories_templateId(newProfile, uuid0) ==
    [i \in DOMAIN DEFAULT_CATEGORIES |->
        [id |-> ItemId(0, i), name |-> DEFAULT_CATEGORIES[i],
         isDefault |-> TRUE, profileId |-> newProfile.id]]

\* addProfile, lines 53 and 59: one Category per template, each with a fresh uuid
\* (uuid0 is the last uuid drawn before them).
addProfile_categories(newProfile, uuid0) ==
    [i \in DOMAIN DEFAULT_CATEGORIES |->
        [id |-> ItemId(newProfile.id, uuid0 + i), name |-> DEFAULT_CATEGORIES[i],
         isDefault |-> TRUE, profileId |-> newProfile.id]]

\* addProfile, lines 54 and 60.
addProfile_incomeSources(newProfile, uuid0) ==
    [i \in DOMAIN DEFAULT_INCOME_SOURCES |->
        [id |-> ItemId(newProfile.id, uuid0 + i), name |-> DEFAULT_INCOME_SOURCES[i],
         isDefault |-> TRUE, profileId |-> newProfile.id]]

\* addProfile, lines 56-61.
addProfile_update(prev, newProfile, userCategories, userIncomeSources) ==
    [prev EXCEPT !.profiles = Append(@, newProfile),
                 !.categories = @ \o userCategories,
                 !.incomeSources = @ \o userIncomeSources]

\* The uuids addProfile draws for the items of one profile.
ItemsPerProfile == Len(DEFAULT_CATEGORIES) + Len(DEFAULT_INCOME_SOURCES)

\* addTransaction, lines 70-71.
addTransaction(prev, transaction, uuid) ==
    [prev EXCEPT !.transactions = Append(@, [transaction EXCEPT !.id = uuid])]

\* updateTransaction adding the transaction when no stored one has its id.
updateTransaction_upsert(prev, updatedTransaction) ==
    IF \E t \in Range(prev.transactions) : t.id = updatedTransaction.id
    THEN [prev EXCEPT !.transactions =
            [i \in DOMAIN @ |-> IF @[i].id = updatedTransaction.id THEN updatedTransaction ELSE @[i]]]
    ELSE [prev EXCEPT !.transactions = Append(@, updatedTransaction)]

\* updateTransaction, lines 79-84.
updateTransaction(prev, updatedTransaction) ==
    [prev EXCEPT !.transactions =
        [i \in DOMAIN @ |-> IF @[i].id = updatedTransaction.id THEN updatedTransaction ELSE @[i]]]

\* deleteCurrency, lines 112-114.
deleteCurrency(prev, currencyCode) ==
    LET keep(c) == c.code # currencyCode
    IN [prev EXCEPT !.currencies = SelectSeq(@, keep)]

\* addCurrency, lines 108-110.
addCurrency(prev, currency) == [prev EXCEPT !.currencies = Append(@, currency)]

\* deleteTransaction, lines 86-88.
deleteTransaction(prev, transactionId) ==
    LET keep(t) == t.id # transactionId
    IN [prev EXCEPT !.transactions = SelectSeq(@, keep)]

\* deleteCategory also removing the transactions filed under the category.
deleteCategory_cascade(prev, categoryId) ==
    LET keep(c) == c.id # categoryId
        keepT(t) == t.categoryId # categoryId
    IN [prev EXCEPT !.categories = SelectSeq(@, keep), !.transactions = SelectSeq(@, keepT)]

\* deleteCategory, lines 95-97.
deleteCategory(prev, categoryId) ==
    LET keep(c) == c.id # categoryId
    IN [prev EXCEPT !.categories = SelectSeq(@, keep)]

\* deleteIncomeSource, lines 104-106.
deleteIncomeSource(prev, sourceId) ==
    LET keep(s) == s.id # sourceId
    IN [prev EXCEPT !.incomeSources = SelectSeq(@, keep)]
\* deleteProfile leaving the profile's income sources behind.
deleteProfile_keepsSources(prev, profileId) ==
    LET keepP(p) == p.id # profileId
        keepO(x) == x.profileId # profileId
    IN [prev EXCEPT !.profiles = SelectSeq(@, keepP),
                    !.transactions = SelectSeq(@, keepO),
                    !.categories = SelectSeq(@, keepO)]

\* deleteProfile, lines 123-131.
deleteProfile(prev, profileId) ==
    LET keepP(p) == p.id # profileId
        keepO(x) == x.profileId # profileId
    IN [prev EXCEPT !.profiles = SelectSeq(@, keepP),
                    !.transactions = SelectSeq(@, keepO),
                    !.categories = SelectSeq(@, keepO),
                    !.incomeSources = SelectSeq(@, keepO)]

\* deleteUser leaving the transactions of the deleted profiles behind.
deleteUser_keepsTransactions(prev, userId) ==
    LET profileIdsToDelete == {p.id : p \in {q \in Range(prev.profiles) : q.userId = userId}}
        keepU(u) == u.id # userId
        keepP(p) == p.userId # userId
        keepO(x) == x.profileId \notin profileIdsToDelete
    IN [prev EXCEPT !.users = SelectSeq(@, keepU),
                    !.profiles = SelectSeq(@, keepP),
                    !.categories = SelectSeq(@, keepO),
                    !.incomeSources = SelectSeq(@, keepO)]

\* deleteUser, lines 133-147.
deleteUser(prev, userId) ==
    LET profileIdsToDelete == {p.id : p \in {q \in Range(prev.profiles) : q.userId = userId}}
        keepU(u) == u.id # userId
        keepP(p) == p.userId # userId
        keepO(x) == x.profileId \notin profileIdsToDelete
    IN [prev EXCEPT !.users = SelectSeq(@, keepU),
                    !.profiles = SelectSeq(@, keepP),
                    !.transactions = SelectSeq(@, keepO),
                    !.categories = SelectSeq(@, keepO),
                    !.incomeSources = SelectSeq(@, keepO)]

\* resetPassword, lines 150-153: the index of the user found in the closure's list
\* (0 when findIndex gives -1).
resetPassword_index(d, email) ==
    FindIndex({ix \in DOMAIN d.users : ToLowerCase(d.users[ix].email) = ToLowerCase(email)})

\* resetPassword, lines 155-161: the user list is rebuilt from the closure's list.
resetPassword_update(d, prev, userIndex) ==
    [prev EXCEPT !.users = [d.users EXCEPT ![userIndex].passwordHash = simpleHash(PasswordReset)]]

\* updateUserRole with the guard off by one (`adminCount < 1`).
updateUserRole_ok_offByOne(d, userId, role) ==
    LET isU(u) == u.id = userId
        userIndex == FindIndex({ix \in DOMAIN d.users : isU(d.users[ix])})
        adminCount == Cardinality({i \in DOMAIN d.users : d.users[i].role = ADMIN})
    IN /\ userIndex # 0
       /\ ~(d.users[userIndex].role = ADMIN /\ role = USER /\ adminCount < 1)

\* updateUserRole, lines 166-177: whether the call goes through, read from the closure.
updateUserRole_ok(d, userId, role) ==
    LET isU(u) == u.id = userId
        userIndex == FindIndex({ix \in DOMAIN d.users : isU(d.users[ix])})
        adminCount == Cardinality({i \in DOMAIN d.users : d.users[i].role = ADMIN})
    IN /\ userIndex # 0
       /\ ~(d.users[userIndex].role = ADMIN /\ role = USER /\ adminCount <= 1)

\* updateUserRole, lines 179-181: the user list is rebuilt from the closure's list.
updateUserRole_update(d, prev, userId, role) ==
    LET isU(u) == u.id = userId
        userIndex == FindIndex({ix \in DOMAIN d.users : isU(d.users[ix])})
    IN [prev EXCEPT !.users = [d.users EXCEPT ![userIndex].role = role]]

\* getProfileData, lines 185-192, read from the closure.
getProfileData(d, profileId) ==
    LET own(x) == x.profileId = profileId
    IN [transactions |-> SelectSeq(d.transactions, own),
        categories |-> SelectSeq(d.categories, own),
        incomeSources |-> SelectSeq(d.incomeSources, own)]

(***************************************************************************)
(* TransactionForm: its fields as useState initialises them (lines 384-392)*)
(* with the form closed (Transactions, lines 759-760).                     *)
(***************************************************************************)
Today == "2024-01-02"

ClosedForm ==
    [open |-> FALSE, initialData |-> NoTx, type |-> EXPENSE, amount |-> 0, description |-> "",
     date |-> Today, categoryId |-> NoItem, sourceId |-> NoItem, paymentMethod |-> BANK,
     attachments |-> <<>>, isSuggesting |-> FALSE, candidates |-> <<>>]

\* Transactions, App.tsx line 761: no transaction is viewed; no FileReader of the
\* details view is reading, `made` attachments were made so far.
DetailsInit == [viewingTransaction |-> NoTx, readers |-> {}, made |-> 0]

\* The useState initialiser starting without the default currencies.
LoadData_noDefaults(item) ==
    IF item.kind = "json" THEN item.value ELSE [EmptyData EXCEPT !.currencies = <<>>]

\* The useState initialiser, lines 16-33: the parsed item when there is one and it
\* parses, the empty snapshot otherwise.
LoadData(item) == IF item.kind = "json" THEN item.value ELSE EmptyData

\* setData undoing the update when the save that follows it fails.
setData_undoneByFailedSave(next) == data' = IF localStorage.full THEN data ELSE next

\* setData (the state setter of line 16): the next render's snapshot.
setData(next) == data' = next

\* The effect saving the transactions only, into the item saved before.
Save_transactionsOnly(storage, d) ==
    IF storage.full THEN storage
    ELSE [storage EXCEPT !.item = Stringify([storage.item.value EXCEPT !.transactions = d.transactions])]
\* The effect of lines 35-41 for a new snapshot d: setItem, or a logged error.
Save(storage, d) == IF storage.full THEN storage ELSE [storage EXCEPT !.item = Stringify(d)]

\* The effect runs after every render that setData caused.
SaveEffect == localStorage' = Save(localStorage, data')

\* The Settings page not shown; newProfileCurrency is the ProfileManager's select
\* (Settings.tsx line 77), "" while the page is not shown.
SettingsInit == [shown |-> FALSE, newProfileCurrency |-> ""]

(***************************************************************************)
(* DataManagement: its state as useState initialises it (lines 248-249),   *)
(* no read in progress and nothing downloaded.  A file's text is a         *)
(* sequence of character codes.  `table` and `exported` remember what the  *)
(* chosen file was written from, `chosen` how many files were chosen.      *)
(***************************************************************************)
NoFile == << -1 >>
NoFeedback == [type |-> "none", message |-> "", imported |-> 0]
NoReading == [active |-> FALSE, text |-> NoFile, profileId |-> NoId,
              profileCategories |-> <<>>, profileIncomeSources |-> <<>>]
NoTable == [header |-> <<>>, rows |-> <<>>, eol |-> "LF"]

DataManagementInit ==
    [csvFile |-> NoFile, feedback |-> NoFeedback, reading |-> NoReading,
     download |-> NoFile, exported |-> <<>>, table |-> NoTable, chosen |-> 0]

(***************************************************************************)
(* The state after construction.                                           *)
(***************************************************************************)
Init ==
    /\ data = EmptyData
    /\ ids = [user |-> 0, profile |-> 0, item |-> 0, tx |-> 0, demo |-> 0]
    /\ currentUser = NoUser
    /\ activeProfileId = NoId
    /\ form = ClosedForm
    /\ csv = DataManagementInit
    /\ settings = SettingsInit
    /\ details = DetailsInit
    /\ localStorage = Save([item |-> NoItemSaved, full |-> FALSE], EmptyData)
    /\ last = NoEvent

\* The state of the components above the store.
view == <<currentUser, activeProfileId, form>>

(***************************************************************************)
(* The store's operations called one per event.                            *)
(***************************************************************************)
\* The emails ("a@b", "b@b", ...) of the users the store-level events create, by uuid.
StoreEmails == [i \in 1..(MaxUserIds + MaxAccounts) |-> <<96 + i, 64, 98>>]

AddUserUpTo(max) ==
    /\ ids.user < max
    /\ LET uuid == ids.user + 1
           newUser == addUser_new(data, [email |-> StoreEmails[uuid], passwordHash |-> simpleHash(PasswordPw)], uuid)
       IN /\ setData(addUser_update(data, newUser))
          /\ ids' = [ids EXCEPT !.user = uuid]
          /\ last' = [Event("addUser", data) EXCEPT !.user = newUser]
          /\ UNCHANGED <<csv, settings, details>>
          /\ SaveEffect
    /\ UNCHANGED view

AddUser == AddUserUpTo(MaxUserIds)

AddAccount == AddUserUpTo(MaxAccounts)

DeleteUser ==
    /\ \E userId \in 1..ids.user :
          /\ setData(deleteUser(data, userId))
          /\ last' = [Event("deleteUser", data) EXCEPT !.userId = userId]
          /\ UNCHANGED <<csv, settings, details>>
          /\ SaveEffect
    /\ UNCHANGED <<ids, view>>

UpdateUserRole ==
    /\ \E userId \in 1..ids.user, role \in Roles :
          LET ok == updateUserRole_ok(data, userId, role)
          IN /\ IF ok THEN setData(updateUserRole_update(data, data, userId, role)) ELSE UNCHANGED data
             /\ last' = [Event("updateUserRole", data) EXCEPT !.userId = userId, !.role = role, !.ok = ok]
             /\ UNCHANGED <<csv, settings, details>>
             /\ IF ok THEN SaveEffect ELSE UNCHANGED localStorage
    /\ UNCHANGED <<ids, view>>

AddProfileIn(codes) ==
    /\ ids.profile < MaxProfileIds
    /\ \E u \in Range(data.users), code \in codes :
          LET newProfile == addProfile_new(u.id, [name |-> "Personal", currencyCode |-> code], ids.profile + 1)
              cats == addProfile_categories(newProfile, ids.item)
              srcs == addProfile_incomeSources(newProfile, ids.item + Len(cats))
          IN /\ setData(addProfile_update(data, newProfile, cats, srcs))
             /\ ids' = [ids EXCEPT !.profile = @ + 1, !.item = @ + ItemsPerProfile]
             /\ last' = [Event("addProfile", data) EXCEPT !.profile = newProfile, !.userId = u.id, !.code = code]
             /\ UNCHANGED <<csv, settings, details>>
             /\ SaveEffect
    /\ UNCHANGED view

AddProfile == AddProfileIn({"USD"})

AddProfileAnyCurrency == AddProfileIn({"USD", "EUR"})

DeleteProfile ==
    /\ \E profileId \in 1..ids.profile :
          /\ setData(deleteProfile(data, profileId))
          /\ last' = [Event("deleteProfile", data) EXCEPT !.profileId = profileId]
          /\ UNCHANGED <<csv, settings, details>>
          /\ SaveEffect
    /\ UNCHANGED <<ids, view>>

DeleteCurrency ==
    /\ \E code \in {c.code : c \in Range(data.currencies)} :
          /\ setData(deleteCurrency(data, code))
          /\ last' = [Event("deleteCurrency", data) EXCEPT !.code = code]
          /\ UNCHANGED <<csv, settings, details>>
          /\ SaveEffect
    /\ UNCHANGED <<ids, view>>

\* A transaction as the form builds it for an existing profile: an expense in the
\* profile's first category or an income from its first source.
NewTransaction(d, profileId, type) ==
    LET pd == getProfileData(d, profileId)
    IN [NoTx EXCEPT
        !.profileId = profileId, !.type = type, !.amount = 100,
        !.description = "Rent", !.date = Today, !.paymentMethod = BANK,
        !.categoryId = IF type = EXPENSE /\ pd.categories # <<>> THEN pd.categories[1].id ELSE NoItem,
        !.sourceId = IF type = INCOME /\ pd.incomeSources # <<>> THEN pd.incomeSources[1].id ELSE NoItem]

\* The uuids drawn for transactions other than the demo login's samples.
TxDraws == ids.tx - ids.demo * Len(SampleTransactions)

AddTransaction ==
    /\ TxDraws < MaxTxIds
    /\ \E p \in Range(data.profiles), type \in {EXPENSE, INCOME} :
          /\ setData(addTransaction(data, NewTransaction(data, p.id, type), ids.tx + 1))
          /\ ids' = [ids EXCEPT !.tx = @ + 1]
          /\ last' = [Event("addTransaction", data) EXCEPT !.profileId = p.id]
          /\ UNCHANGED <<csv, settings, details>>
          /\ SaveEffect
    /\ UNCHANGED view

\* The categories and income sources deleted so far.
ItemsDeleted == ids.item - Len(data.categories) - Len(data.incomeSources)

\* The ids a delete operation is called with: those of the first two items of a
\* profile's list.
DeleteDraws(items) == {items[i].id : i \in DOMAIN items \cap 1..2}

\* deleteCategory called with the id of a category of the store.
DeleteCategory ==
    /\ ItemsDeleted < MaxItemDeletes
    /\ \E p \in Range(data.profiles) :
          \E categoryId \in DeleteDraws(getProfileData(data, p.id).categories) :
             /\ setData(deleteCategory(data, categoryId))
             /\ last' = [Event("deleteCategory", data) EXCEPT !.profileId = p.id, !.itemId = categoryId]
             /\ UNCHANGED <<csv, settings, details>>
             /\ SaveEffect
    /\ UNCHANGED <<ids, view>>

\* deleteIncomeSource called with the id of an income source of the store.
DeleteIncomeSource ==
    /\ ItemsDeleted < MaxItemDeletes
    /\ \E p \in Range(data.profiles) :
          \E sourceId \in DeleteDraws(getProfileData(data, p.id).incomeSources) :
             /\ setData(deleteIncomeSource(data, sourceId))
             /\ last' = [Event("deleteIncomeSource", data) EXCEPT !.profileId = p.id, !.itemId = sourceId]
             /\ UNCHANGED <<csv, settings, details>>
             /\ SaveEffect
    /\ UNCHANGED <<ids, view>>
\* deleteTransaction called with the id of a stored transaction.
DeleteTransaction ==
    /\ \E t \in Range(data.transactions) :
          /\ setData(deleteTransaction(data, t.id))
          /\ last' = [Event("deleteTransaction", data) EXCEPT !.profileId = t.profileId, !.tx = t]
          /\ UNCHANGED <<csv, settings, details>>
          /\ SaveEffect
    /\ UNCHANGED <<ids, view>>

\* The amount (in cents) an update carries.
UpdateAmounts == {250}

\* updateTransaction called with a transaction built from a view of the store, the
\* current one or an earlier one: its id is any id drawn so far, that of a
\* transaction deleted since included.
UpdateTransaction ==
    /\ \E transactionId \in 1..ids.tx, p \in Range(data.profiles), type \in {EXPENSE, INCOME},
          amount \in UpdateAmounts :
          LET updatedTransaction ==
                [NewTransaction(data, p.id, type) EXCEPT !.id = transactionId, !.amount = amount]
          IN /\ setData(updateTransaction(data, updatedTransaction))
             /\ last' = [Event("updateTransaction", data) EXCEPT !.profileId = p.id, !.tx = updatedTransaction]
             /\ UNCHANGED <<csv, settings, details>>
             /\ SaveEffect
    /\ UNCHANGED <<ids, view>>
\* localStorage reaches its quota (by this or another page of the origin): setItem
\* throws from now on.
StorageFills ==
    /\ ~localStorage.full
    /\ localStorage' = [localStorage EXCEPT !.full = TRUE]
    /\ last' = Event("storageFills", data)
    /\ UNCHANGED <<data, ids, view, csv, settings, details>>

\* Room is made in localStorage: setItem succeeds again.
StorageFrees ==
    /\ localStorage.full
    /\ localStorage' = [localStorage EXCEPT !.full = FALSE]
    /\ last' = Event("storageFrees", data)
    /\ UNCHANGED <<data, ids, view, csv, settings, details>>
NextUsers ==
    \/ AddAccount
    \/ DeleteUser
    \/ UpdateUserRole

SpecUsers == Init /\ [][NextUsers]_vars

NextStore ==
    \/ AddUser
    \/ AddProfile
    \/ AddTransaction
    \/ DeleteUser
    \/ DeleteProfile

SpecStore == Init /\ [][NextStore]_vars

\* A snapshot an earlier session saved: one user, and the currency EUR deleted.
SavedSnapshot ==
    LET user == addUser_new(EmptyData, [email |-> StoreEmails[1], passwordHash |-> simpleHash(PasswordPw)], 1)
    IN deleteCurrency(addUser_update(EmptyData, user), "EUR")

\* What localStorage holds under 'zenithFinanceData' when the page is opened.
SavedItems == {NoItemSaved, UnparsableItem, Stringify(SavedSnapshot)}

\* The page is opened: useState runs its initialiser on what localStorage holds
\* (lines 16-33) and the effect saves the first snapshot (lines 35-41).
InitBoot ==
    /\ \E item \in SavedItems, full \in BOOLEAN :
          /\ data = LoadData(item)
          /\ localStorage = Save([item |-> item, full |-> full], LoadData(item))
          /\ last = [NoEvent EXCEPT !.outcome = item.kind, !.pre = Sizes(LoadData(item))]
    /\ ids = [user |-> Len(data.users), profile |-> 0, item |-> 0, tx |-> 0, demo |-> 0]
    /\ currentUser = NoUser
    /\ activeProfileId = NoId
    /\ form = ClosedForm
    /\ csv = DataManagementInit
    /\ settings = SettingsInit
    /\ details = DetailsInit

NextBoot ==
    \/ AddUser
    \/ AddProfile
    \/ AddTransaction

SpecBoot == InitBoot /\ [][NextBoot]_vars

NextCurrency ==
    \/ AddUser
    \/ AddProfileAnyCurrency
    \/ DeleteCurrency

SpecCurrency == Init /\ [][NextCurrency]_vars

(***************************************************************************)
(* App: the effect of lines 261-266, run after every render whose          *)
(* currentUser, userProfiles or activeProfileId changed; it is the last    *)
(* step of every event below.                                              *)
(***************************************************************************)
\* getProfilesForUser, lines 65-67.
getProfilesForUser(d, user) ==
    LET own(p) == p.userId = user.id
    IN SelectSeq(d.profiles, own)

ActiveProfileEffect(user, d, active) ==
    LET userProfiles == IF user = NoUser THEN <<>> ELSE getProfilesForUser(d, user)
        isDemo(p) == p.name = "Demo Profile"
        demo == FindIndex({ix \in DOMAIN userProfiles : isDemo(userProfiles[ix])})
    IN IF /\ user # NoUser
          /\ Len(userProfiles) > 0
          /\ (active = NoId \/ \A p \in Range(userProfiles) : p.id # active)
       THEN IF demo # 0 THEN userProfiles[demo].id ELSE userProfiles[1].id
       ELSE active

\* What App renders: the AuthPage, the "Loading profile..." screen, or the pages.
OnAuthPage == currentUser = NoUser
OnPages == currentUser # NoUser /\ activeProfileId # NoId
\* A page's own controls can be used: no modal form lies over them.
PageFree == OnPages /\ ~form.open /\ details.viewingTransaction = NoTx

(***************************************************************************)
(* AuthPage                                                                *)
(***************************************************************************)
\* What the email and password fields are filled with.
Emails == {EmailLowerA, EmailUpperA, EmailC}
Passwords == {PasswordPw}

\* handleSubmit, lines 80-88 (sign up).
Signup ==
    /\ OnAuthPage
    /\ \E email \in Emails, password \in Passwords :
          IF \E u \in Range(data.users) : u.email = email
          THEN /\ last' = [Event("signup", data) EXCEPT !.ok = FALSE]
               /\ UNCHANGED <<data, ids, view>>
               /\ UNCHANGED <<csv, settings, details, localStorage>>
          ELSE /\ ids.user < MaxUserIds /\ ids.profile < MaxProfileIds
               /\ LET newUser == addUser_new(data, [email |-> email, passwordHash |-> simpleHash(password)], ids.user + 1)
                      newProfile == addProfile_new(newUser.id, [name |-> "Personal", currencyCode |-> "USD"], ids.profile + 1)
                      cats == addProfile_categories(newProfile, ids.item)
                      srcs == addProfile_incomeSources(newProfile, ids.item + Len(cats))
                      d1 == addUser_update(data, newUser)
                      d2 == addProfile_update(d1, newProfile, cats, srcs)
                  IN /\ setData(d2)
                     /\ ids' = [ids EXCEPT !.user = @ + 1, !.profile = @ + 1, !.item = @ + ItemsPerProfile]
                     /\ currentUser' = newUser
                     /\ activeProfileId' = ActiveProfileEffect(newUser, d2, activeProfileId)
                     /\ last' = [Event("signup", data) EXCEPT !.user = newUser, !.profile = newProfile]
                     /\ UNCHANGED <<csv, settings, details>>
                     /\ SaveEffect
                     /\ UNCHANGED form

\* handleSubmit, lines 73-79 (sign in).
\* AuthPage.handleSubmit, lines 73-75: the user the login finds and accepts, NoUser
\* when the email or the password is wrong.
LoginUser(appData, email, password) ==
    LET isE(u) == u.email = email
        i == FindIndex({ix \in DOMAIN appData.users : isE(appData.users[ix])})
    IN IF i # 0 /\ appData.users[i].passwordHash = simpleHash(password) THEN appData.users[i]
       ELSE NoUser

LoginWith(emails, passwords) ==
    /\ OnAuthPage
    /\ \E email \in emails, password \in passwords :
          LET ok == LoginUser(data, email, password) # NoUser
          IN /\ currentUser' = IF ok THEN LoginUser(data, email, password) ELSE currentUser
             /\ activeProfileId' = ActiveProfileEffect(currentUser', data, activeProfileId)
             /\ last' = [Event("login", data) EXCEPT !.ok = ok, !.user = currentUser', !.email = email]
             /\ UNCHANGED <<csv, settings, details>>
             /\ UNCHANGED localStorage
             /\ UNCHANGED <<data, ids, form>>

Login == LoginWith(Emails \cup {DEMO_EMAIL}, Passwords \cup {PasswordDemo})

\* handleDemoLogin, lines 91-140.
DemoLogin ==
    /\ OnAuthPage
    /\ ids.demo < MaxDemoLogins
    /\ LET appData == data
           isDemoUser(u) == u.email = DEMO_EMAIL
           ui == FindIndex({ix \in DOMAIN appData.users : isDemoUser(appData.users[ix])})
           demoUser == IF ui # 0 THEN appData.users[ui]
                       ELSE addUser_new(appData, [email |-> DEMO_EMAIL, passwordHash |-> simpleHash(PasswordDemo)], ids.user + 1)
           d1 == IF ui # 0 THEN data ELSE addUser_update(data, demoUser)
           isDemoProfile(p) == p.name = "Demo Profile" /\ p.userId = demoUser.id
           pi == FindIndex({ix \in DOMAIN appData.profiles : isDemoProfile(appData.profiles[ix])})
           demoProfile == IF pi # 0 THEN appData.profiles[pi]
                          ELSE addProfile_new(demoUser.id, [name |-> "Demo Profile", currencyCode |-> "USD"], ids.profile + 1)
           cats == addProfile_categories(demoProfile, ids.item)
           srcs == addProfile_incomeSources(demoProfile, ids.item + Len(cats))
           d2 == IF pi # 0 THEN d1 ELSE addProfile_update(d1, demoProfile, cats, srcs)
           \* getProfileData reads the data of the render the handler was made in
           pd == getProfileData(appData, demoProfile.id)
           getCatId(name) ==
               LET isN(c) == c.name = name
                   k == FindIndex({ix \in DOMAIN pd.categories : isN(pd.categories[ix])})
               IN IF k # 0 THEN pd.categories[k].id ELSE NoItem
           getSourceId(name) ==
               LET isN(c) == c.name = name
                   k == FindIndex({ix \in DOMAIN pd.incomeSources : isN(pd.incomeSources[ix])})
               IN IF k # 0 THEN pd.incomeSources[k].id ELSE NoItem
           newDemoTransactionsWithIds ==
               [i \in DOMAIN SampleTransactions |->
                   LET t == SampleTransactions[i]
                   IN [NoTx EXCEPT
                       !.id = ids.tx + i, !.profileId = demoProfile.id, !.type = t.type,
                       !.amount = t.amount, !.description = t.description, !.date = t.date,
                       !.paymentMethod = t.paymentMethod,
                       !.categoryId = IF t.type = EXPENSE THEN getCatId(t.name) ELSE NoItem,
                       !.sourceId = IF t.type = INCOME THEN getSourceId(t.name) ELSE NoItem]]
           other(t) == t.profileId # demoProfile.id
           allOtherTransactions == SelectSeq(appData.transactions, other)
           d3 == [d2 EXCEPT !.transactions = allOtherTransactions \o newDemoTransactionsWithIds]
       IN /\ ui = 0 => ids.user < MaxUserIds
          /\ pi = 0 => ids.profile < MaxProfileIds
          /\ setData(d3)
          /\ ids' = [ids EXCEPT !.user = IF ui = 0 THEN @ + 1 ELSE @,
                                !.profile = IF pi = 0 THEN @ + 1 ELSE @,
                                !.item = IF pi = 0 THEN @ + ItemsPerProfile ELSE @,
                                !.tx = @ + Len(SampleTransactions),
                                !.demo = @ + 1]
          /\ currentUser' = demoUser
          /\ activeProfileId' = ActiveProfileEffect(demoUser, d3, activeProfileId)
          /\ last' = [Event("demoLogin", data) EXCEPT !.user = demoUser, !.profile = demoProfile]
          /\ UNCHANGED <<csv, settings, details>>
          /\ SaveEffect
          /\ UNCHANGED form

(***************************************************************************)
(* App: handleLogout, lines 272-275 (the Header's button).                 *)
(***************************************************************************)
Logout ==
    /\ PageFree
    /\ currentUser' = NoUser
    /\ activeProfileId' = NoId
    /\ last' = Event("logout", data)
    /\ settings' = SettingsInit
    /\ UNCHANGED <<csv, details>>
    /\ UNCHANGED localStorage
    /\ UNCHANGED <<data, ids, form>>

(***************************************************************************)
(* Settings: UserManager.handleAdd, lines 162-173; its fields and button   *)
(* are disabled unless the logged-in User object has role Admin.           *)
(***************************************************************************)
UserManagerAdd ==
    /\ PageFree
    /\ currentUser.role = ADMIN
    /\ \E newEmail \in Emails, newPassword \in Passwords :
          IF \E u \in Range(data.users) : ToLowerCase(u.email) = ToLowerCase(newEmail)
          THEN /\ last' = [Event("userManagerAdd", data) EXCEPT !.ok = FALSE]
               /\ UNCHANGED <<data, ids, view>>
               /\ UNCHANGED <<csv, settings, details, localStorage>>
          ELSE /\ ids.user < MaxUserIds
               /\ LET newUser == addUser_new(data, [email |-> newEmail, passwordHash |-> simpleHash(newPassword)], ids.user + 1)
                  IN /\ setData(addUser_update(data, newUser))
                     /\ ids' = [ids EXCEPT !.user = @ + 1]
                     /\ activeProfileId' = ActiveProfileEffect(currentUser, data', activeProfileId)
                     /\ last' = [Event("userManagerAdd", data) EXCEPT !.user = newUser]
                     /\ UNCHANGED <<csv, settings, details>>
                     /\ SaveEffect
                     /\ UNCHANGED <<currentUser, form>>

(***************************************************************************)
(* The Settings page (Settings.tsx) with the Sidebar and the Header of App: *)
(* ProfileManager and CurrencyManager.  The page's components keep their   *)
(* state while the page is shown.                                          *)
(***************************************************************************)
\* Sidebar, App.tsx line 209: the Settings page is opened; ProfileManager's select
\* starts at the first currency (Settings.tsx line 77).
OpenSettings ==
    /\ PageFree /\ ~settings.shown
    /\ settings' = [shown |-> TRUE,
                    newProfileCurrency |-> IF data.currencies # <<>> THEN data.currencies[1].code
                                           ELSE "USD"]
    /\ last' = Event("openSettings", data)
    /\ UNCHANGED <<data, ids, view, csv, details, localStorage>>

\* Header, App.tsx line 238: another profile of the user is selected.
SwitchProfile ==
    /\ PageFree
    /\ \E p \in Range(getProfilesForUser(data, currentUser)) :
          /\ p.id # activeProfileId
          /\ activeProfileId' = p.id
          /\ last' = [Event("switchProfile", data) EXCEPT !.profileId = p.id]
    /\ UNCHANGED <<data, ids, currentUser, form, csv, settings, details, localStorage>>

\* ProfileManager's currency select, Settings.tsx lines 98-100.
ProfileManagerSelectCurrency ==
    /\ PageFree /\ settings.shown
    /\ \E c \in Range(data.currencies) :
          /\ c.code # settings.newProfileCurrency
          /\ settings' = [settings EXCEPT !.newProfileCurrency = c.code]
          /\ last' = [Event("selectCurrency", data) EXCEPT !.code = c.code]
    /\ UNCHANGED <<data, ids, view, csv, details, localStorage>>

\* The names typed into ProfileManager's input.
ProfileNames == {"Work"}

\* ProfileManager.handleAdd, Settings.tsx lines 79-84, with App's wrapper, App.tsx
\* line 335.
ProfileManagerAdd ==
    /\ PageFree /\ settings.shown
    /\ ids.profile < MaxProfileIds
    /\ \E name \in ProfileNames :
          LET newProfile == addProfile_new(currentUser.id,
                                           [name |-> name, currencyCode |-> settings.newProfileCurrency],
                                           ids.profile + 1)
              cats == addProfile_categories(newProfile, ids.item)
              srcs == addProfile_incomeSources(newProfile, ids.item + Len(cats))
          IN /\ setData(addProfile_update(data, newProfile, cats, srcs))
             /\ ids' = [ids EXCEPT !.profile = @ + 1, !.item = @ + ItemsPerProfile]
             /\ last' = [Event("profileManagerAdd", data) EXCEPT
                            !.profile = newProfile, !.userId = currentUser.id,
                            !.code = settings.newProfileCurrency]
             /\ SaveEffect
    /\ UNCHANGED <<view, csv, settings, details>>

\* ProfileManager's trash button, Settings.tsx line 93 (disabled for the active
\* profile and for the user's only profile), with handleProfileDelete, App.tsx
\* lines 277-289.
ProfileManagerDelete ==
    /\ PageFree /\ settings.shown
    /\ \E p \in Range(getProfilesForUser(data, currentUser)) :
          /\ p.id # activeProfileId
          /\ Len(getProfilesForUser(data, currentUser)) > 1
          /\ setData(deleteProfile(data, p.id))
          /\ last' = [Event("profileManagerDelete", data) EXCEPT !.profileId = p.id]
          /\ SaveEffect
    /\ UNCHANGED <<ids, view, csv, settings, details>>

\* CurrencyManager's trash button, Settings.tsx lines 127 and 134: disabled for a
\* currency some profile uses.
CurrencyManagerDelete ==
    /\ PageFree /\ settings.shown
    /\ \E c \in Range(data.currencies) :
          /\ \A p \in Range(data.profiles) : p.currencyCode # c.code
          /\ setData(deleteCurrency(data, c.code))
          /\ last' = [Event("currencyManagerDelete", data) EXCEPT !.code = c.code]
          /\ SaveEffect
    /\ UNCHANGED <<ids, view, csv, settings, details>>

\* What is typed into CurrencyManager's three inputs.
NewCurrencies == {[code |-> "usd", symbol |-> "$", name |-> "Dollar"],
                  [code |-> "gbp", symbol |-> "L", name |-> "Pound"]}

\* CurrencyManager.handleAdd, Settings.tsx lines 118-123: the three inputs are not
\* blank.
CurrencyManagerAdd ==
    /\ PageFree /\ settings.shown
    /\ Len(data.currencies) < MaxCurrencies
    /\ \E typed \in NewCurrencies :
          LET currency == [code |-> Str(ToUpperCase(Chars(typed.code))),
                           symbol |-> typed.symbol, name |-> typed.name]
          IN /\ setData(addCurrency(data, currency))
             /\ last' = [Event("currencyManagerAdd", data) EXCEPT !.code = currency.code]
             /\ SaveEffect
    /\ UNCHANGED <<ids, view, csv, settings, details>>

NextCurrencyManager ==
    \/ Signup
    \/ OpenSettings
    \/ CurrencyManagerAdd
    \/ CurrencyManagerDelete

SpecCurrencyManager == Init /\ [][NextCurrencyManager]_vars

NextProfiles ==
    \/ Signup
    \/ DemoLogin
    \/ Logout
    \/ OpenSettings
    \/ SwitchProfile
    \/ ProfileManagerSelectCurrency
    \/ ProfileManagerAdd
    \/ ProfileManagerDelete
    \/ CurrencyManagerDelete

SpecProfiles == Init /\ [][NextProfiles]_vars
\* UserManager's role select and trash button for `user` enabled for everybody,
\* the own account included.
CanManage_everyone(user) == user.id \in 1..ids.user

\* UserManager, Settings.tsx lines 210 and 220: the role select and the trash
\* button of `user` are enabled for an admin, and never for the own account.
CanManage(user) == currentUser.role = ADMIN /\ user.id # currentUser.id

\* UserManager's role select, Settings.tsx lines 207-215: updateUserRole.
UserManagerUpdateRole ==
    /\ PageFree
    /\ \E user \in Range(data.users), role \in Roles :
          /\ CanManage(user)
          /\ role # user.role
          /\ LET ok == updateUserRole_ok(data, user.id, role)
             IN /\ IF ok THEN setData(updateUserRole_update(data, data, user.id, role)) ELSE UNCHANGED data
                /\ last' = [Event("userManagerUpdateRole", data) EXCEPT
                               !.userId = user.id, !.role = role, !.ok = ok]
                /\ IF ok THEN SaveEffect ELSE UNCHANGED localStorage
    /\ UNCHANGED <<ids, view, csv, settings, details>>

\* UserManager's trash button and handleDeleteConfirm, Settings.tsx lines 176-181
\* and 216-223: deleteUser.
UserManagerDelete ==
    /\ PageFree
    /\ \E user \in Range(data.users) :
          /\ CanManage(user)
          /\ setData(deleteUser(data, user.id))
          /\ last' = [Event("userManagerDelete", data) EXCEPT !.userId = user.id]
          /\ SaveEffect
    /\ UNCHANGED <<ids, view, csv, settings, details>>

NextUserManager ==
    \/ Signup
    \/ Login
    \/ DemoLogin
    \/ Logout
    \/ UserManagerAdd
    \/ UserManagerUpdateRole
    \/ UserManagerDelete

SpecUserManager == Init /\ [][NextUserManager]_vars
NextAuth ==
    \/ Signup
    \/ Login
    \/ DemoLogin
    \/ Logout
    \/ UserManagerAdd

SpecAuth == Init /\ [][NextAuth]_vars

(***************************************************************************)
\* ForgotPasswordModal.handleReset, App.tsx lines 29-37, with resetPassword: the
\* Reset button of the modal opened on the AuthPage.
ResetPassword ==
    /\ OnAuthPage
    /\ \E email \in Emails :
          LET userIndex == resetPassword_index(data, email)
          IN /\ IF userIndex # 0
                THEN setData(resetPassword_update(data, data, userIndex)) /\ SaveEffect
                ELSE UNCHANGED <<data, localStorage>>
             /\ last' = [Event("resetPassword", data) EXCEPT !.email = email, !.ok = (userIndex # 0)]
    /\ UNCHANGED <<ids, view, csv, settings, details>>

\* The login with the password a reset sets.
LoginAfterReset == LoginWith(Emails, {PasswordReset})

NextReset ==
    \/ Signup
    \/ Logout
    \/ ResetPassword
    \/ LoginAfterReset

SpecReset == Init /\ [][NextReset]_vars

\* SpecAuth with the events that can happen happening: React runs the handler of
\* an event in the browser's queue, and the user goes on using what is on screen.
SpecAuthFair == Init /\ [][NextAuth]_vars /\ WF_vars(NextAuth)
(* The store operations on items and transactions, and the save effect,    *)
(* exercised from a signed-up account.                                     *)
(***************************************************************************)
NextItems ==
    \/ Signup
    \/ AddTransaction
    \/ DeleteCategory
    \/ DeleteIncomeSource

SpecItems == Init /\ [][NextItems]_vars

NextUpdate ==
    \/ Signup
    \/ AddProfile
    \/ AddTransaction
    \/ DeleteTransaction
    \/ UpdateTransaction

SpecUpdate == Init /\ [][NextUpdate]_vars

NextPersist ==
    \/ Signup
    \/ AddProfile
    \/ AddTransaction
    \/ DeleteTransaction
    \/ StorageFills
    \/ StorageFrees

SpecPersist == Init /\ [][NextPersist]_vars

(***************************************************************************)
(* Transactions and TransactionForm (App.tsx, lines 383-469 and 793-809).  *)
(* The form lies over the page as a modal; its categories and income       *)
(* sources are those of the active profile in the current render.          *)
(***************************************************************************)
\* What the form's selects and inputs are filled with: one of the first two
\* options of a select, one amount (in cents) and one description.
FirstTwo(s) == {s[i] : i \in DOMAIN s \cap 1..2}
FormAmounts == {100}
FormDescriptions == {"Rent"}

\* handleOpenForm, lines 793-796, and the form's effect, lines 396-407.
FormOpened(initialData) ==
    IF initialData = NoTx
    THEN [ClosedForm EXCEPT !.open = TRUE]
    ELSE [open |-> TRUE, initialData |-> initialData, type |-> initialData.type,
          amount |-> initialData.amount, description |-> initialData.description,
          date |-> initialData.date, categoryId |-> initialData.categoryId,
          sourceId |-> initialData.sourceId, paymentMethod |-> initialData.paymentMethod,
          attachments |-> initialData.attachments, isSuggesting |-> FALSE, candidates |-> <<>>]

OpenFormAdd ==
    /\ PageFree
    /\ form' = FormOpened(NoTx)
    /\ last' = Event("openForm", data)
    /\ UNCHANGED <<csv, settings, details>>
    /\ UNCHANGED localStorage
    /\ UNCHANGED <<data, ids, currentUser, activeProfileId>>

OpenFormEdit ==
    /\ PageFree
    /\ \E t \in Range(getProfileData(data, activeProfileId).transactions) :
          /\ form' = FormOpened(t)
          /\ last' = Event("openForm", data)
          /\ UNCHANGED <<csv, settings, details>>
          /\ UNCHANGED localStorage
    /\ UNCHANGED <<data, ids, currentUser, activeProfileId>>

\* The amount and description inputs.
FormFill ==
    /\ OnPages /\ form.open
    /\ form.amount = 0
    /\ \E amount \in FormAmounts, description \in FormDescriptions :
          form' = [form EXCEPT !.amount = amount, !.description = description]
    /\ last' = Event("formFill", data)
    /\ UNCHANGED <<csv, settings, details>>
    /\ UNCHANGED localStorage
    /\ UNCHANGED <<data, ids, currentUser, activeProfileId>>

\* The Expense / Income buttons, lines 475-476.
FormSetType ==
    /\ OnPages /\ form.open
    /\ \E type \in {EXPENSE, INCOME} \ {form.type} :
          form' = [form EXCEPT !.type = type]
    /\ last' = Event("formSetType", data)
    /\ UNCHANGED <<csv, settings, details>>
    /\ UNCHANGED localStorage
    /\ UNCHANGED <<data, ids, currentUser, activeProfileId>>

\* The Category select, shown for an expense (lines 482-487).
FormSelectCategory ==
    /\ OnPages /\ form.open
    /\ form.type = EXPENSE
    /\ \E c \in FirstTwo(getProfileData(data, activeProfileId).categories) :
          /\ c.id # form.categoryId
          /\ form' = [form EXCEPT !.categoryId = c.id]
    /\ last' = Event("formSelect", data)
    /\ UNCHANGED <<csv, settings, details>>
    /\ UNCHANGED localStorage
    /\ UNCHANGED <<data, ids, currentUser, activeProfileId>>

\* The Source select, shown for an income (lines 493-496).
FormSelectSource ==
    /\ OnPages /\ form.open
    /\ form.type = INCOME
    /\ \E c \in FirstTwo(getProfileData(data, activeProfileId).incomeSources) :
          /\ c.id # form.sourceId
          /\ form' = [form EXCEPT !.sourceId = c.id]
    /\ last' = Event("formSelect", data)
    /\ UNCHANGED <<csv, settings, details>>
    /\ UNCHANGED localStorage
    /\ UNCHANGED <<data, ids, currentUser, activeProfileId>>

\* handleSubmit, lines 451-461: `{...initialData, ...transactionData}`, where
\* transactionData holds categoryId only for an expense and sourceId only for an
\* income; without initialData the keys it lacks are absent.
TransactionFormData(f, profileId) ==
    [f.initialData EXCEPT
        !.profileId = profileId, !.type = f.type, !.amount = f.amount,
        !.description = f.description, !.date = f.date, !.paymentMethod = f.paymentMethod,
        !.attachments = f.attachments,
        !.categoryId = IF f.type = EXPENSE THEN f.categoryId ELSE @,
        !.sourceId = IF f.type = INCOME THEN f.sourceId ELSE @]

\* The form's required fields (lines 478-480, 484, 493): the browser submits only
\* when they are filled.
FormValid(f) ==
    /\ f.amount # 0 /\ f.description # "" /\ f.date # ""
    /\ f.type = EXPENSE => f.categoryId # NoItem
    /\ f.type = INCOME => f.sourceId # NoItem

\* TransactionForm.handleSubmit, lines 449-469, with Transactions.handleSubmit,
\* lines 803-809, and App's addTransaction wrapper, line 312.
FormSubmit ==
    /\ OnPages /\ form.open
    /\ FormValid(form)
    /\ LET td == TransactionFormData(form, activeProfileId)
       IN IF form.initialData # NoTx
          THEN /\ setData(updateTransaction(data, td))
               /\ UNCHANGED ids
          ELSE /\ TxDraws < MaxTxIds
               /\ setData(addTransaction(data, td, ids.tx + 1))
               /\ ids' = [ids EXCEPT !.tx = @ + 1]
    /\ form' = ClosedForm
    /\ last' = Event("formSubmit", data)
    /\ UNCHANGED <<csv, settings, details>>
    /\ SaveEffect
    /\ UNCHANGED <<currentUser, activeProfileId>>

\* handleCloseForm, lines 798-801 (Cancel, or a click beside the modal).
FormClose ==
    /\ OnPages /\ form.open
    /\ form' = ClosedForm
    /\ last' = Event("formClose", data)
    /\ UNCHANGED <<csv, settings, details>>
    /\ UNCHANGED localStorage
    /\ UNCHANGED <<data, ids, currentUser, activeProfileId>>

(***************************************************************************)
(* TransactionDetailModal (App.tsx lines 537-660), shown by Transactions   *)
(* for its viewingTransaction state (lines 761, 874, 889-898).             *)
(***************************************************************************)
\* A row of the table is clicked, lines 727 and 874: setViewingTransaction(t).
DetailsOpen ==
    /\ PageFree
    /\ \E t \in Range(getProfileData(data, activeProfileId).transactions) :
          details' = [details EXCEPT !.viewingTransaction = t]
    /\ last' = Event("detailsOpen", data)
    /\ UNCHANGED <<data, ids, view, csv, settings, localStorage>>

\* onClose, line 892: setViewingTransaction(null).  A FileReader that is reading
\* goes on.
DetailsClose ==
    /\ OnPages /\ details.viewingTransaction # NoTx
    /\ details' = [details EXCEPT !.viewingTransaction = NoTx]
    /\ last' = Event("detailsClose", data)
    /\ UNCHANGED <<data, ids, view, csv, settings, localStorage>>

\* The files offered to the modal's file input.
AttachmentFiles == {"a.png", "b.pdf"}

\* handleAddAttachment, lines 562-585, up to readAsDataURL: the reader's onload
\* holds the `transaction` prop of this render and the file.
DetailsChooseFile ==
    /\ OnPages /\ details.viewingTransaction # NoTx
    /\ details.made + Cardinality(details.readers) < MaxAttachments
    /\ \E file \in AttachmentFiles :
          /\ \A r \in details.readers : r.file # file
          /\ details' = [details EXCEPT
                 !.readers = @ \cup {[transaction |-> details.viewingTransaction, file |-> file]}]
    /\ last' = Event("detailsChooseFile", data)
    /\ UNCHANGED <<data, ids, view, csv, settings, localStorage>>

\* reader.onload, lines 567-580: the updated transaction handed to updateTransaction.
WithAttachment(transaction, newAttachment) ==
    [transaction EXCEPT !.attachments = Append(@, newAttachment)]

\* reader.onload, lines 567-581, for one of the readers.
DetailsFileLoaded ==
    /\ \E r \in details.readers :
          LET newAttachment == [id |-> details.made + 1, name |-> r.file]
              updatedTransaction == WithAttachment(r.transaction, newAttachment)
          IN /\ setData(updateTransaction(data, updatedTransaction))
             /\ details' = [details EXCEPT !.readers = @ \ {r}, !.made = @ + 1]
             /\ last' = [Event("addAttachment", data) EXCEPT !.tx = updatedTransaction]
             /\ SaveEffect
    /\ UNCHANGED <<ids, view, csv, settings>>

NextDetails ==
    \/ Signup
    \/ AddTransaction
    \/ DetailsOpen
    \/ DetailsClose
    \/ DetailsChooseFile
    \/ DetailsFileLoaded
    \/ OpenFormEdit
    \/ FormSelectCategory
    \/ FormSubmit

SpecDetails == Init /\ [][NextDetails]_vars
NextTx ==
    \/ Signup
    \/ OpenFormAdd
    \/ OpenFormEdit
    \/ FormFill
    \/ FormSetType
    \/ FormSelectCategory
    \/ FormSelectSource
    \/ FormSubmit
    \/ FormClose

SpecTx == Init /\ [][NextTx]_vars

(***************************************************************************)
(* The category suggestion: TransactionForm.handleSuggestCategory          *)
(* (App.tsx, lines 409-423) and suggestCategory (geminiService).  A call   *)
(* that is under way belongs to the form that made it: once that form is   *)
(* closed, its state setters do nothing.                                   *)
(***************************************************************************)
\* The index of the category the response names, 0 when it names none.
FoundCategory(text, categories) ==
    FindIndex({i \in DOMAIN categories :
                  ToLowerCase(Chars(categories[i].name)) = ToLowerCase(Trim(text))})

\* suggestCategory putting the first candidate forward when the response names none.
suggestCategory_firstWhenNoneFound(reply, categories) ==
    IF ~reply.ai
    THEN [threw |-> TRUE, id |-> NoItem]
    ELSE IF reply.failed \/ categories = <<>>
         THEN [threw |-> FALSE, id |-> NoItem]
         ELSE LET found == FoundCategory(reply.text, categories)
              IN [threw |-> FALSE, id |-> categories[IF found = 0 THEN 1 ELSE found].id]

\* suggestCategory, lines 15-43: throws without a client; null (NoItem) when the call
\* fails or the response names none of the categories; else the id of the first
\* category with that name, compared in lower case.
suggestCategory(reply, categories) ==
    IF ~reply.ai
    THEN [threw |-> TRUE, id |-> NoItem]
    ELSE IF reply.failed
         THEN [threw |-> FALSE, id |-> NoItem]
         ELSE LET found == FoundCategory(reply.text, categories)
              IN [threw |-> FALSE, id |-> IF found = 0 THEN NoItem ELSE categories[found].id]

\* The responses of the service: a category's name, as it is or in lower case or
\* with white space around it, a name that is no category's, and nothing.
ReplyTexts ==
    {Chars("Food"), ToLowerCase(Chars("Food")), <<32>> \o Chars("Housing") \o <<LineFeed>>,
     Chars("Nope"), <<>>}

SuggestReplies ==
    {NoReply, [NoReply EXCEPT !.ai = TRUE, !.failed = TRUE]}
    \cup {[NoReply EXCEPT !.ai = TRUE, !.text = text] : text \in ReplyTexts}

\* handleSuggestCategory up to its await (lines 410-413); the button is shown for an
\* expense and disabled while a call is under way or without a description
\* (line 488).
FormSuggest ==
    /\ OnPages /\ form.open
    /\ form.type = EXPENSE
    /\ ~form.isSuggesting /\ form.description # ""
    /\ form' = [form EXCEPT !.isSuggesting = TRUE,
                            !.candidates = getProfileData(data, activeProfileId).categories]
    /\ last' = Event("formSuggest", data)
    /\ UNCHANGED <<csv, settings, details>>
    /\ UNCHANGED localStorage
    /\ UNCHANGED <<data, ids, currentUser, activeProfileId>>

\* handleSuggestCategory from its await on (lines 413-421): the call settles.
SuggestSettles ==
    /\ form.isSuggesting
    /\ \E reply \in SuggestReplies :
          LET suggested == suggestCategory(reply, form.candidates)
          IN /\ form' = [form EXCEPT
                            !.categoryId = IF ~suggested.threw /\ suggested.id # NoItem
                                           THEN suggested.id ELSE @,
                            !.isSuggesting = FALSE,
                            !.candidates = <<>>]
             /\ last' = [Event("suggestSettles", data) EXCEPT !.reply = reply]
    /\ UNCHANGED <<csv, settings, details>>
    /\ UNCHANGED localStorage
    /\ UNCHANGED <<data, ids, currentUser, activeProfileId>>

NextSuggest ==
    \/ Signup
    \/ OpenFormAdd
    \/ FormFill
    \/ FormSetType
    \/ FormSelectCategory
    \/ FormSuggest
    \/ SuggestSettles
    \/ FormSubmit
    \/ FormClose

SpecSuggest == Init /\ [][NextSuggest]_vars

(***************************************************************************)
(* DataManagement (Settings.tsx): CSV export and import.                   *)
(***************************************************************************)
\* handleExportCSV, line 276.
ExportHeaders == <<"date", "description", "amount", "type", "paymentMethod", "category", "source">>

\* handleExportCSV, lines 277-283: the line of one transaction.
ExportRow(t, profileCategories, profileIncomeSources) ==
    LET ci == FindIndex({ix \in DOMAIN profileCategories : profileCategories[ix].id = t.categoryId})
        si == FindIndex({ix \in DOMAIN profileIncomeSources : profileIncomeSources[ix].id = t.sourceId})
        category == IF t.type = EXPENSE /\ ci # 0 THEN Chars(profileCategories[ci].name) ELSE <<>>
        source == IF t.type = INCOME /\ si # 0 THEN Chars(profileIncomeSources[si].name) ELSE <<>>
        description == <<Quote>> \o DoubleQuotes(Chars(t.description)) \o <<Quote>>
    IN Join(<<DatePart(Chars(t.date)), description, NumberToString(t.amount), Chars(t.type),
              Chars(t.paymentMethod), category, source>>, <<Comma>>)

\* handleExportCSV, line 285: csvContent.
ExportText(d, profileId) ==
    LET pd == getProfileData(d, profileId)
        rows == [i \in DOMAIN pd.transactions |-> ExportRow(pd.transactions[i], pd.categories, pd.incomeSources)]
        headers == [i \in DOMAIN ExportHeaders |-> Chars(ExportHeaders[i])]
    IN Join(<<Join(headers, <<Comma>>)>> \o rows, <<LineFeed>>)

\* handleImportCSV, line 303: the lines that are not blank.
CsvLines(text) ==
    LET inked(line) == Trim(line) # <<>>
    IN SelectSeq(Split(text, LineFeed), inked)

\* line 309.
CsvHeader(line) ==
    LET cells == Split(line, Comma)
    IN [i \in DOMAIN cells |-> Trim(cells[i])]

\* lines 310-311.
requiredHeaders == <<"date", "description", "amount", "type", "paymentMethod">>

HeaderComplete(header) ==
    \A k \in DOMAIN requiredHeaders : \E i \in DOMAIN header : header[i] = Chars(requiredHeaders[k])

\* line 319: row[h], the cell under the last column named h; undefined when there
\* is no such column or the line has no cell there.
RowField(header, cells, h) ==
    LET at == {i \in DOMAIN header : header[i] = Chars(h)}
        i == CHOOSE a \in at : \A b \in at : b <= a
    IN IF at = {} THEN Undefined
       ELSE IF i <= Len(cells) THEN cells[i] ELSE Undefined

\* lines 318-339, one turn of the loop: the line is skipped (continue), or a
\* transaction is pushed, or building it throws (toISOString of an Invalid Date,
\* toLowerCase of undefined).
ImportRow(header, line, profileCategories, profileIncomeSources) ==
    LET Row(date, description, amount, rowType, rowCategory, rowSource, paymentMethod) ==
            LET type == ToLowerCase(rowType)
                ci == FindIndex({ix \in DOMAIN profileCategories :
                          /\ rowCategory # Undefined
                          /\ ToLowerCase(Chars(profileCategories[ix].name)) = ToLowerCase(rowCategory)})
                si == FindIndex({ix \in DOMAIN profileIncomeSources :
                          /\ rowSource # Undefined
                          /\ ToLowerCase(Chars(profileIncomeSources[ix].name)) = ToLowerCase(rowSource)})
                skip == [kind |-> "skip", tx |-> NoTx]
            IN IF Falsy(date) \/ Falsy(description) \/ amount.nan \/ Falsy(rowType) THEN skip
               ELSE IF type = Chars(EXPENSE) /\ ci = 0 THEN skip
               ELSE IF type = Chars(INCOME) /\ si = 0 THEN skip
               ELSE IF ~ValidDate(date) \/ paymentMethod = Undefined THEN [kind |-> "throw", tx |-> NoTx]
               ELSE [kind |-> "push",
                     tx |-> [NoTx EXCEPT
                         !.type = Str(type),
                         !.amount = amount.value,
                         !.description = Str(UndoubleQuotes(StripQuotes(description))),
                         !.date = Str(toISOString(date)),
                         !.paymentMethod = Str(ToLowerCase(paymentMethod)),
                         !.categoryId = IF type = Chars(EXPENSE) THEN profileCategories[ci].id ELSE NoItem,
                         !.sourceId = IF type = Chars(INCOME) THEN profileIncomeSources[si].id ELSE NoItem]]
        Cells(cells) ==
            Row(RowField(header, cells, "date"),
                RowField(header, cells, "description"),
                parseFloat(RowField(header, cells, "amount")),
                RowField(header, cells, "type"),
                RowField(header, cells, "category"),
                RowField(header, cells, "source"),
                RowField(header, cells, "paymentMethod"))
    IN Cells(Split(line, Comma))

\* reader.onload, lines 302-347, up to the commit: how the handler ends and the
\* newTransactions it holds then.
ImportOutcome(text, profileCategories, profileIncomeSources) ==
    LET Ended(kind, newTransactions) == [kind |-> kind, newTransactions |-> newTransactions]
        Pushed(accepted) ==
            IF accepted # <<>>
            THEN Ended("success", [i \in DOMAIN accepted |-> accepted[i].tx])
            ELSE Ended("novalid", <<>>)
        Looped(results) ==
            LET pushed(r) == r.kind = "push"
            IN IF \E i \in DOMAIN results : results[i].kind = "throw"
               THEN Ended("throw", <<>>)
               ELSE Pushed(SelectSeq(results, pushed))
        Headed(lines, header) ==
            IF ~HeaderComplete(header) THEN Ended("header", <<>>)
            ELSE Looped([i \in 1..(Len(lines) - 1) |->
                            ImportRow(header, lines[i + 1], profileCategories, profileIncomeSources)])
        Read(lines) ==
            IF Len(lines) < 2 THEN Ended("empty", <<>>) ELSE Headed(lines, CsvHeader(lines[1]))
    IN Read(CsvLines(text))

\* addMultipleTransactions, useAppData lines 74-77.
addMultipleTransactions(prev, transactions, uuid0) ==
    [prev EXCEPT !.transactions =
        @ \o [i \in DOMAIN transactions |-> [transactions[i] EXCEPT !.id = uuid0 + i]]]

\* Settings, line 451: the wrapper handed to DataManagement.
WithProfileId(ts, profileId) == [i \in DOMAIN ts |-> [ts[i] EXCEPT !.profileId = profileId]]

(***************************************************************************)
(* The CSV files a user chooses: a header, data rows and a line ending.    *)
(* A row gives the cell under each column; `drop` cells are missing at its *)
(* end.                                                                    *)
(***************************************************************************)
ValidExpense ==
    [date |-> "2024-01-02", description |-> "Rent", amount |-> "100", type |-> "expense",
     paymentMethod |-> "bank", category |-> "Food", source |-> "", note |-> "keep", drop |-> 0]
ValidIncome ==
    [date |-> "2024-01-02", description |-> "Rent", amount |-> "7", type |-> "income",
     paymentMethod |-> "bank", category |-> "", source |-> "Salary", note |-> "keep", drop |-> 0]

FileRows ==
    { ValidExpense,
      ValidIncome,
      [ValidExpense EXCEPT !.amount = "x"],
      [ValidExpense EXCEPT !.amount = "1x"],
      [ValidExpense EXCEPT !.category = "Nope"],
      [ValidIncome EXCEPT !.source = "Nope"],
      [ValidExpense EXCEPT !.date = "x"],
      [ValidIncome EXCEPT !.drop = 1] }

FileHeaders ==
    { ExportHeaders,
      <<"category", "source", "type", "amount", "description", "date", "paymentMethod">>,
      <<"date", "description", "note", "amount", "type", "paymentMethod", "category", "source">>,
      <<"date", "description", "amount", "paymentMethod", "category", "source">> }

LineEndings == {"LF", "CRLF"}

RowSeqs(n) == UNION {[1..k -> FileRows] : k \in 0..n}

FileTables ==
    [header : FileHeaders, rows : RowSeqs(MaxCsvRows), eol : LineEndings]

\* The text of a table: cells joined by commas, every line closed by the line ending.
RenderTable(table) ==
    LET eol == IF table.eol = "CRLF" THEN <<CarriageReturn, LineFeed>> ELSE <<LineFeed>>
        headerLine == Join([i \in DOMAIN table.header |-> Chars(table.header[i])], <<Comma>>)
        rowLine(r) == Join([i \in 1..(Len(table.header) - r.drop) |-> Chars(r[table.header[i]])], <<Comma>>)
        lines == <<headerLine>> \o [i \in DOMAIN table.rows |-> rowLine(table.rows[i])]
    IN Join(lines, eol) \o eol

\* <Input type="file" onChange>, line 379: a file is chosen.
CsvChooseFileFrom(tables) ==
    /\ PageFree
    /\ csv.chosen < MaxCsvFiles
    /\ \E table \in tables :
          csv' = [csv EXCEPT !.csvFile = RenderTable(table), !.table = table, !.chosen = @ + 1]
    /\ last' = Event("chooseFile", data)
    /\ UNCHANGED <<data, ids, currentUser, activeProfileId, form, settings, details, localStorage>>

CsvChooseFile == CsvChooseFileFrom(FileTables)

\* Files in the export's layout whose type and paymentMethod cells are spelled in
\* capitals or name no TransactionType or PaymentMethod.
ValueRows ==
    { [ValidExpense EXCEPT !.type = "Expense", !.paymentMethod = "CASH"],
      [ValidExpense EXCEPT !.paymentMethod = "card"],
      [ValidIncome EXCEPT !.type = "transfer"],
      [ValidIncome EXCEPT !.paymentMethod = "credit"] }

ValueTables ==
    [header : {ExportHeaders}, rows : UNION {[1..k -> ValueRows] : k \in 0..MaxCsvRows},
     eol : LineEndings]

CsvChooseValuesFile == CsvChooseFileFrom(ValueTables)

\* The file chosen is the one Export as CSV downloaded.
CsvChooseDownload ==
    /\ PageFree
    /\ csv.chosen < MaxCsvFiles
    /\ csv.download # NoFile
    /\ csv' = [csv EXCEPT !.csvFile = csv.download, !.table = NoTable, !.chosen = @ + 1]
    /\ last' = Event("chooseFile", data)
    /\ UNCHANGED <<data, ids, currentUser, activeProfileId, form, settings, details, localStorage>>

\* handleExportCSV, lines 275-295: the download.
CsvExport ==
    /\ PageFree
    /\ csv' = [csv EXCEPT !.download = ExportText(data, activeProfileId),
                          !.exported = getProfileData(data, activeProfileId).transactions]
    /\ last' = [Event("exportCSV", data) EXCEPT !.profileId = activeProfileId]
    /\ UNCHANGED <<data, ids, currentUser, activeProfileId, form, settings, details, localStorage>>

\* handleImportCSV, lines 297-300 and 353: the read starts; onload keeps the
\* props of this render.  One read is in progress at a time.
CsvImportStart ==
    /\ PageFree
    /\ csv.csvFile # NoFile
    /\ ~csv.reading.active
    /\ LET pd == getProfileData(data, activeProfileId)
       IN csv' = [csv EXCEPT
              !.feedback = NoFeedback,
              !.reading = [active |-> TRUE, text |-> csv.csvFile, profileId |-> activeProfileId,
                           profileCategories |-> pd.categories,
                           profileIncomeSources |-> pd.incomeSources]]
    /\ last' = [Event("importStart", data) EXCEPT !.profileId = activeProfileId]
    /\ UNCHANGED <<data, ids, currentUser, activeProfileId, form, settings, details, localStorage>>

\* reader.onload, lines 301-352.
CsvImportLoad ==
    /\ csv.reading.active
    /\ \E r \in {csv.reading} :
        \E out \in {ImportOutcome(r.text, r.profileCategories, r.profileIncomeSources)} :
          /\ IF out.kind = "success"
             THEN /\ setData(addMultipleTransactions(data, WithProfileId(out.newTransactions, r.profileId), ids.tx))
                  /\ ids' = [ids EXCEPT !.tx = @ + Len(out.newTransactions)]
                  /\ SaveEffect
             ELSE UNCHANGED <<data, ids, localStorage>>
          /\ csv' = [csv EXCEPT
                 !.reading = NoReading,
                 !.feedback = CASE out.kind = "success" ->
                                     [type |-> "success", message |-> "imported",
                                      imported |-> Len(out.newTransactions)]
                                [] out.kind = "throw" -> @
                                [] OTHER -> [type |-> "error", message |-> out.kind, imported |-> 0],
                 !.csvFile = IF out.kind \in {"success", "novalid"} THEN NoFile ELSE @]
          /\ last' = [Event("importCSV", data) EXCEPT !.profileId = r.profileId, !.outcome = out.kind,
                                                      !.ok = (out.kind = "success")]
    /\ UNCHANGED <<currentUser, activeProfileId, form, settings, details>>

NextCsvValues ==
    \/ Signup
    \/ CsvChooseValuesFile
    \/ CsvImportStart
    \/ CsvImportLoad

SpecCsvValues == Init /\ [][NextCsvValues]_vars

\* An import on the settings page, with the header's profile select and
\* ProfileManager at hand while the file is read.
NextImportSwitch ==
    \/ Signup
    \/ OpenSettings
    \/ ProfileManagerAdd
    \/ SwitchProfile
    \/ ProfileManagerDelete
    \/ CsvChooseFile
    \/ CsvImportStart
    \/ CsvImportLoad

SpecImportSwitch == Init /\ [][NextImportSwitch]_vars
\* A transaction added through the form with one of these descriptions.
CsvDescriptions == {"Rent", "a,b", "a\"b"}

AddDescribedTransaction ==
    /\ PageFree
    /\ TxDraws < MaxTxIds
    /\ \E type \in {EXPENSE, INCOME}, description \in CsvDescriptions :
          /\ setData(addTransaction(data, [NewTransaction(data, activeProfileId, type) EXCEPT
                                              !.description = description], ids.tx + 1))
          /\ ids' = [ids EXCEPT !.tx = @ + 1]
          /\ last' = [Event("addTransaction", data) EXCEPT !.profileId = activeProfileId]
    /\ SaveEffect
    /\ UNCHANGED <<currentUser, activeProfileId, form, csv, settings, details>>

NextCsv ==
    \/ Signup
    \/ CsvChooseFile
    \/ CsvImportStart
    \/ CsvImportLoad

SpecCsv == Init /\ [][NextCsv]_vars

NextCsvRoundTrip ==
    \/ Signup
    \/ AddDescribedTransaction
    \/ CsvExport
    \/ CsvChooseDownload
    \/ CsvImportStart
    \/ CsvImportLoad

SpecCsvRoundTrip == Init /\ [][NextCsvRoundTrip]_vars

(***************************************************************************)
(* Properties of the store operations.                                     *)
(***************************************************************************)
AdminCount(d) == Cardinality({i \in DOMAIN d.users : d.users[i].role = ADMIN})

\* The profiles of snapshot d that user U owns, and what a set of profiles owns.
ProfilesOf(d, U) == {p.id : p \in {q \in Range(d.profiles) : q.userId = U}}

\* post is pre without the profiles P and without what they own; users apart.
CascadeRemoves(pre, post, P) ==
    LET keepP(p) == p.id \notin P
        keepO(x) == x.profileId \notin P
    IN /\ post.profiles = SelectSeq(pre.profiles, keepP)
       /\ post.transactions = SelectSeq(pre.transactions, keepO)
       /\ post.categories = SelectSeq(pre.categories, keepO)
       /\ post.incomeSources = SelectSeq(pre.incomeSources, keepO)
       /\ post.currencies = pre.currencies

\* C1: deleteUser(U) removes exactly U, exactly U's profiles and exactly the
\* transactions, categories and income sources of those profiles; every other
\* entity and every currency stays as it was, in the same order.
C1_DeleteUserCascade ==
    [][last'.op = "deleteUser" =>
        LET U == last'.userId
            keepU(u) == u.id # U
        IN /\ data'.users = SelectSeq(data.users, keepU)
           /\ CascadeRemoves(data, data', ProfilesOf(data, U))]_vars

\* C1's case: a user owning a profile with a transaction was deleted while another
\* user's profile, transaction, categories and income sources stayed.
C1_Witness ==
    /\ last.op = "deleteUser"
    /\ Len(data.users) = last.pre.users - 1
    /\ Len(data.profiles) < last.pre.profiles /\ Len(data.profiles) > 0
    /\ Len(data.transactions) < last.pre.transactions /\ Len(data.transactions) > 0
    /\ Len(data.categories) < last.pre.categories /\ Len(data.categories) > 0
    /\ Len(data.incomeSources) < last.pre.incomeSources /\ Len(data.incomeSources) > 0

\* C2: demoting an Admin to User fails and changes nothing when that Admin is the
\* only one; with two or more Admins it succeeds and changes only that user's role.
C2_LastAdminProtected ==
    [][(/\ last'.op = "updateUserRole"
        /\ last'.role = USER
        /\ \E u \in Range(data.users) : u.id = last'.userId /\ u.role = ADMIN) =>
        IF AdminCount(data) = 1
        THEN ~last'.ok /\ data' = data
        ELSE /\ last'.ok
             /\ data' = [data EXCEPT !.users =
                    [i \in DOMAIN data.users |->
                        IF data.users[i].id = last'.userId
                        THEN [data.users[i] EXCEPT !.role = USER]
                        ELSE data.users[i]]]]_vars

\* C2's case: the demotion of the only Admin, with a role-User user present, was
\* refused.
C2_Witness ==
    /\ last.op = "updateUserRole" /\ last.role = USER /\ ~last.ok
    /\ \E u \in Range(data.users) : u.id = last.userId /\ u.role = ADMIN
    /\ \E u \in Range(data.users) : u.role = USER
    /\ AdminCount(data) = 1

\* C3: whenever there is a user there is an Admin.
C3_AdminExists == Len(data.users) > 0 => AdminCount(data) >= 1

\* C4: from the empty store the first createUser returns an Admin, and the
\* createUser that follows it (the first user still being there) returns a User.
C4_FirstAdminSecondUser ==
    [][last'.op = "addUser" =>
        /\ ids'.user = 1 => last'.user.role = ADMIN
        /\ (ids'.user = 2 /\ Len(data.users) = 1) => last'.user.role = USER
        /\ data'.users = Append(data.users, last'.user)]_vars

\* C4's case: the second createUser returned a User beside the first user.
C4_Witness ==
    /\ last.op = "addUser" /\ ids.user = 2
    /\ Len(data.users) = 2
    /\ data.users[1].role = ADMIN /\ last.user.role = USER

\* C5 as claimed: a createUser after the first ever returns a User.
C5_OnlyFirstEverIsAdmin ==
    (last.op = "addUser" /\ ids.user > 1) => last.user.role = USER

\* C5 amended: createUser returns an Admin exactly when the user list is empty at
\* the call, whatever was created and deleted before, and a User otherwise.
C5_AdminIffStoreEmpty ==
    [][last'.op = "addUser" =>
        /\ last'.user.role \in Roles
        /\ last'.user.role = ADMIN <=> data.users = <<>>]_vars

\* C5's case: a later createUser, made after every user was deleted, returned an
\* Admin.
C5_Witness ==
    /\ last.op = "addUser" /\ ids.user > 1
    /\ last.pre.users = 0
    /\ last.user.role = ADMIN

\* C6: deleteCurrency of a code some profile uses leaves the store as it was.
C6_DeleteCurrencyBlocked ==
    [][(/\ last'.op = "deleteCurrency"
        /\ \E p \in Range(data.profiles) : p.currencyCode = last'.code) =>
        data' = data]_vars

\* The ids of the categories and income sources of a snapshot.
ItemIds(d) == {c.id : c \in Range(d.categories)} \cup {x.id : x \in Range(d.incomeSources)}

\* C7: no two users have emails that are equal ignoring letter case.
C7_EmailsUniqueIgnoringCase ==
    \A i \in DOMAIN data.users, j \in DOMAIN data.users :
        i # j => ToLowerCase(data.users[i].email) # ToLowerCase(data.users[j].email)

\* C8: every stored transaction has categoryId set exactly when it is an expense
\* and sourceId set exactly when it is an income.
C8_CategoryXorSource ==
    \A t \in Range(data.transactions) :
        /\ t.categoryId # NoItem <=> t.type = EXPENSE
        /\ t.sourceId # NoItem <=> t.type = INCOME

\* C9: createProfile appends one profile and, after the existing ones, a non-empty
\* list of categories and a non-empty list of income sources that belong to the
\* new profile and whose ids are new and pairwise different; nothing else changes.
C9_ProfileSeeding ==
    [][last'.op = "addProfile" =>
        LET P == last'.profile
            nc == Len(data.categories)
            ns == Len(data.incomeSources)
            newCats == SubSeq(data'.categories, nc + 1, Len(data'.categories))
            newSrcs == SubSeq(data'.incomeSources, ns + 1, Len(data'.incomeSources))
            newIds == {c.id : c \in Range(newCats)} \cup {x.id : x \in Range(newSrcs)}
        IN /\ data'.profiles = Append(data.profiles, P)
           /\ P.userId = last'.userId /\ P.currencyCode = last'.code
           /\ \A q \in Range(data.profiles) : q.id # P.id
           /\ SubSeq(data'.categories, 1, nc) = data.categories
           /\ SubSeq(data'.incomeSources, 1, ns) = data.incomeSources
           /\ newCats # <<>> /\ newSrcs # <<>>
           /\ \A c \in Range(newCats) \cup Range(newSrcs) : c.profileId = P.id
           /\ newIds \cap ItemIds(data) = {}
           /\ Cardinality(newIds) = Len(newCats) + Len(newSrcs)
           /\ data'.users = data.users
           /\ data'.transactions = data.transactions
           /\ data'.currencies = data.currencies]_vars

\* C9's case: a profile was created beside another profile that holds defaults of
\* the same names.
C9_Witness ==
    /\ last.op = "addProfile"
    /\ \E c \in Range(data.categories), e \in Range(data.categories) :
          c.profileId = last.profile.id /\ e.profileId # last.profile.id /\ c.name = e.name
    /\ \E c \in Range(data.incomeSources), e \in Range(data.incomeSources) :
          c.profileId = last.profile.id /\ e.profileId # last.profile.id /\ c.name = e.name

\* C10: deleteProfile(P) removes exactly P and exactly the transactions,
\* categories and income sources of P; users, currencies and what other profiles
\* own stay as they were.
C10_DeleteProfileCascade ==
    [][last'.op = "deleteProfile" =>
        /\ data'.users = data.users
        /\ CascadeRemoves(data, data', {last'.profileId})]_vars

\* C10's case: a profile with a transaction was deleted while another profile with
\* a transaction stayed.
C10_Witness ==
    /\ last.op = "deleteProfile"
    /\ Len(data.profiles) = last.pre.profiles - 1 /\ Len(data.profiles) > 0
    /\ Len(data.transactions) < last.pre.transactions /\ Len(data.transactions) > 0
    /\ Len(data.categories) < last.pre.categories /\ Len(data.categories) > 0
    /\ Len(data.incomeSources) < last.pre.incomeSources /\ Len(data.incomeSources) > 0

(***************************************************************************)
(* Properties of the CSV import and export.                                *)
(***************************************************************************)
\* A cell that is a number: one or more digits.
IsNumeral(w) == Chars(w) # <<>> /\ \A i \in DOMAIN Chars(w) : Chars(w)[i] \in Digits

NamesOf(items) == {items[i].name : i \in DOMAIN items}

\* The header names every column of the export.
NamesAllColumns(header) == \A k \in DOMAIN ExportHeaders : \E i \in DOMAIN header : header[i] = ExportHeaders[k]

\* A row C11 calls invalid: its amount is not a number, or it is an expense whose
\* category (an income whose source) is none of the profile's.
InvalidForC11(r, pd) ==
    \/ ~IsNumeral(r.amount)
    \/ r.type = EXPENSE /\ r.category \notin NamesOf(pd.categories)
    \/ r.type = INCOME /\ r.source \notin NamesOf(pd.incomeSources)

\* A row with nothing wrong: every cell is there, the date is a date, the
\* description is filled and C11 finds no fault.
ValidRow(r, pd) ==
    /\ r.drop = 0 /\ ValidDate(Chars(r.date)) /\ r.description # ""
    /\ r.type \in {EXPENSE, INCOME} /\ r.paymentMethod \in {CASH, CREDIT, BANK}
    /\ ~InvalidForC11(r, pd)

\* C11: when every data row of the imported file (all columns named, lines ended
\* by a line feed) is either valid or invalid in C11's way, without missing
\* cells, the import appends exactly as many transactions as there are valid
\* rows.
C11_InvalidRowsExcluded ==
    [][(/\ last'.op = "importCSV"
        /\ csv.table # NoTable /\ csv.table.eol = "LF" /\ NamesAllColumns(csv.table.header)
        /\ LET pd == getProfileData(data, csv.reading.profileId)
           IN \A i \in DOMAIN csv.table.rows :
                 \/ ValidRow(csv.table.rows[i], pd)
                 \/ csv.table.rows[i].drop = 0 /\ ValidDate(Chars(csv.table.rows[i].date))
                    /\ InvalidForC11(csv.table.rows[i], pd))
       => LET pd == getProfileData(data, csv.reading.profileId)
          IN Len(data'.transactions) = Len(data.transactions)
                + Cardinality({i \in DOMAIN csv.table.rows : ValidRow(csv.table.rows[i], pd)})]_vars

\* The header names the five required columns.
NamesRequiredColumns(header) ==
    \A k \in DOMAIN requiredHeaders : \E i \in DOMAIN header : header[i] = requiredHeaders[k]

\* C12: an import of a file with a valid header and at least one data row (lines
\* ended by a line feed) ends with one reported outcome, a count of imported rows
\* or the no-valid-rows failure, and every valid row of the file is committed:
\* the count is the number of transactions appended and is at least the number of
\* valid rows; the failure leaves the store unchanged and the file had no valid
\* row.
C12_EveryImportReports ==
    [][(/\ last'.op = "importCSV"
        /\ csv.table # NoTable /\ csv.table.eol = "LF" /\ csv.table.rows # <<>>
        /\ NamesRequiredColumns(csv.table.header))
       => LET pd == getProfileData(data, csv.reading.profileId)
              valid == Cardinality({i \in DOMAIN csv.table.rows : ValidRow(csv.table.rows[i], pd)})
              appended == Len(data'.transactions) - Len(data.transactions)
          IN \/ /\ csv'.feedback.type = "success"
                /\ csv'.feedback.imported = appended /\ appended >= valid /\ appended > 0
             \/ /\ csv'.feedback.type = "error" /\ csv'.feedback.message = "novalid"
                /\ data' = data /\ valid = 0]_vars

\* What C13 compares of a transaction: its day, description, amount, type, payment
\* method and the name of its category (expense) or source (income).
ItemName(items, id) ==
    LET at == {i \in DOMAIN items : items[i].id = id}
    IN IF at = {} THEN "" ELSE items[CHOOSE i \in at : TRUE].name

RoundTripFields(t, pd) ==
    <<Str(DatePart(Chars(t.date))), t.description, t.amount, t.type, t.paymentMethod,
      IF t.type = EXPENSE THEN ItemName(pd.categories, t.categoryId)
      ELSE ItemName(pd.incomeSources, t.sourceId)>>

SameMultiset(s, t) ==
    \A x \in Range(s) \cup Range(t) :
        Cardinality({i \in DOMAIN s : s[i] = x}) = Cardinality({i \in DOMAIN t : t[i] = x})

\* C13: when the file imported is the last export of the profile's transactions,
\* the transactions the import appends have the same multiset of {date,
\* description, amount, type, paymentMethod, category or source name} as the
\* exported ones.
C13_ExportImportRoundTrip ==
    [][(/\ last'.op = "importCSV"
        /\ csv.reading.text # NoFile /\ csv.reading.text = csv.download)
       => LET pd == getProfileData(data, csv.reading.profileId)
              appended == SubSeq(data'.transactions, Len(data.transactions) + 1, Len(data'.transactions))
          IN SameMultiset([i \in DOMAIN csv.exported |-> RoundTripFields(csv.exported[i], pd)],
                          [i \in DOMAIN appended |-> RoundTripFields(appended[i], pd)])]_vars

\* C14: an import whose rows are accepted appends them in one mutation after the
\* existing transactions, which stay as they were, each with a fresh id and the
\* id of the target profile, and reports their number; an import that accepts no
\* row leaves the store unchanged and reports one failure.
C14_ImportCommitsOneBatch ==
    [][(last'.op = "importCSV" /\ csv.table # NoTable /\ csv.table.rows # <<>>
        /\ NamesRequiredColumns(csv.table.header))
       => LET n == Len(data.transactions)
              appended == SubSeq(data'.transactions, n + 1, Len(data'.transactions))
          IN /\ SubSeq(data'.transactions, 1, n) = data.transactions
             /\ [data' EXCEPT !.transactions = data.transactions] = data
             /\ \A i \in DOMAIN appended :
                   /\ appended[i].profileId = csv.reading.profileId
                   /\ \A j \in DOMAIN data'.transactions : j # n + i => data'.transactions[j].id # appended[i].id
             /\ IF appended # <<>>
                THEN csv'.feedback.type = "success" /\ csv'.feedback.imported = Len(appended)
                ELSE csv'.feedback.type = "error"]_vars

\* What an import adds, apart from the ids given on commit.
Imported(ts) == {[ts[i] EXCEPT !.id = NoId, !.profileId = NoId] : i \in DOMAIN ts}

\* The same rows under the columns of the export, in the export's order.
InExportOrder(table) == [table EXCEPT !.header = ExportHeaders]

\* C15: an import of a file whose header lacks a required column commits nothing
\* and reports an error; when the header names the five required columns,
\* category and source, in any order and among other columns, and no row lacks a
\* cell, the transactions imported are those imported from the same rows written
\* under the seven columns in the export's order.
C15_HeaderDecidesColumns ==
    [][(last'.op = "importCSV" /\ csv.table # NoTable /\ csv.table.rows # <<>>)
       => IF ~NamesRequiredColumns(csv.table.header)
          THEN data' = data /\ csv'.feedback.type = "error"
          ELSE (/\ NamesAllColumns(csv.table.header)
                /\ \A i \in DOMAIN csv.table.rows : csv.table.rows[i].drop = 0)
               => LET n == Len(data.transactions)
                      appended == SubSeq(data'.transactions, n + 1, Len(data'.transactions))
                      reordered == ImportOutcome(RenderTable(InExportOrder(csv.table)),
                                                 csv.reading.profileCategories,
                                                 csv.reading.profileIncomeSources)
                  IN Imported(appended) = Imported(reordered.newTransactions)]_vars

(***************************************************************************)
(* Properties of the category, income source and transaction operations.   *)
(***************************************************************************)
\* s without its element at index i.
Without(s, i) == [j \in 1..(Len(s) - 1) |-> IF j < i THEN s[j] ELSE s[j + 1]]

\* The sequence s with the one element whose id is `id` removed, s itself when no
\* element has that id.
WithoutId(s, id) ==
    LET hits == {i \in DOMAIN s : s[i].id = id}
    IN IF hits = {} THEN s ELSE Without(s, CHOOSE i \in hits : TRUE)

\* C16: deleteCategory(id) and deleteIncomeSource(id) remove the one Category /
\* IncomeSource with that id and nothing else; every Transaction, the ones that
\* reference the deleted entity included, is left as it was.
C16_DeleteItemKeepsTransactions ==
    [][ last'.op \in {"deleteCategory", "deleteIncomeSource"} =>
          /\ data'.transactions = data.transactions
          /\ data'.users = data.users
          /\ data'.profiles = data.profiles
          /\ data'.currencies = data.currencies
          /\ Cardinality({i \in DOMAIN data.categories : data.categories[i].id = last'.itemId}) <= 1
          /\ Cardinality({i \in DOMAIN data.incomeSources : data.incomeSources[i].id = last'.itemId}) <= 1
          /\ IF last'.op = "deleteCategory"
             THEN /\ data'.categories = WithoutId(data.categories, last'.itemId)
                  /\ data'.incomeSources = data.incomeSources
             ELSE /\ data'.incomeSources = WithoutId(data.incomeSources, last'.itemId)
                  /\ data'.categories = data.categories ]_vars

\* A category was deleted and a transaction still references it.
C16_Witness ==
    /\ last.op = "deleteCategory"
    /\ last.pre.categories = Len(data.categories) + 1
    /\ \E t \in Range(data.transactions) : t.categoryId = last.itemId
    /\ \A c \in Range(data.categories) : c.id # last.itemId

\* An income source was deleted and a transaction still references it.
C16_WitnessSource ==
    /\ last.op = "deleteIncomeSource"
    /\ last.pre.incomeSources = Len(data.incomeSources) + 1
    /\ \E t \in Range(data.transactions) : t.sourceId = last.itemId
    /\ \A s \in Range(data.incomeSources) : s.id # last.itemId

\* C17: updateTransaction with an id that no stored transaction has leaves the whole
\* store as it was and inserts nothing; with an id that is present it replaces the
\* transaction with that id and leaves the others, and their order, as they were.
C17_UpdateReplacesInPlace ==
    [][ last'.op = "updateTransaction" =>
          LET hits == {i \in DOMAIN data.transactions : data.transactions[i].id = last'.tx.id}
          IN /\ Cardinality(hits) <= 1
             /\ hits = {} => data' = data
             /\ Len(data'.transactions) = Len(data.transactions)
             /\ \A i \in DOMAIN data.transactions :
                   data'.transactions[i] = IF i \in hits THEN last'.tx ELSE data.transactions[i]
             /\ [data' EXCEPT !.transactions = <<>>] = [data EXCEPT !.transactions = <<>>] ]_vars

\* An update arrived for a transaction deleted before it, while another one is stored.
C17_Witness ==
    /\ last.op = "updateTransaction"
    /\ last.tx.id \in 1..ids.tx
    /\ \A t \in Range(data.transactions) : t.id # last.tx.id
    /\ data.transactions # <<>>

\* An update replaced the second of two stored transactions.
C17_WitnessPresent ==
    /\ last.op = "updateTransaction"
    /\ Len(data.transactions) >= 2
    /\ data.transactions[2] = last.tx
    /\ data.transactions[1].amount \notin UpdateAmounts

(***************************************************************************)
(* Properties of persistence.                                              *)
(***************************************************************************)
\* The snapshot a store operation yields from snapshot d, given the event's record e
\* and the uuid counters after it.
MutationResult(d, e, after) ==
    CASE e.op = "signup" ->
            {addProfile_update(addUser_update(d, e.user), e.profile,
                               addProfile_categories(e.profile, after.item - ItemsPerProfile),
                               addProfile_incomeSources(e.profile, after.item - Len(DEFAULT_INCOME_SOURCES)))}
      [] e.op = "addProfile" ->
            {addProfile_update(d, e.profile,
                               addProfile_categories(e.profile, after.item - ItemsPerProfile),
                               addProfile_incomeSources(e.profile, after.item - Len(DEFAULT_INCOME_SOURCES)))}
      [] e.op = "addTransaction" ->
            {addTransaction(d, NewTransaction(d, e.profileId, type), after.tx) : type \in {EXPENSE, INCOME}}
      [] e.op = "deleteTransaction" -> {deleteTransaction(d, e.tx.id)}
      [] OTHER -> {d}

\* C18: a save that fails neither changes the in-memory snapshot nor fails the
\* mutation that triggered it: after a mutation made while localStorage is full the
\* in-memory snapshot is the mutation's result, computed from the snapshot the
\* mutations before it left, whether or not their saves succeeded.
C18_FailedSaveKeepsMutation ==
    [][ /\ localStorage.full
        /\ last'.op \in {"signup", "addProfile", "addTransaction", "deleteTransaction"}
        /\ last'.ok
        => /\ data' \in MutationResult(data, last', ids')
           /\ data' # data ]_vars

\* Two transactions were added while localStorage was full: both are in memory, and
\* the saved item still is a snapshot without transactions.
C18_Witness ==
    /\ localStorage.full
    /\ last.op = "addTransaction"
    /\ Len(data.transactions) >= 2
    /\ localStorage.item.kind = "json"
    /\ localStorage.item.value.transactions = <<>>
    /\ localStorage.item.value.profiles # <<>>

\* C19: when nothing is saved at start-up, the initial snapshot has no users,
\* profiles, transactions, categories or income sources, and its currencies are the
\* default list.
C19_FirstRunIsEmptyWithDefaults ==
    last.op = "init" /\ last.outcome = "none" =>
        /\ data.users = <<>>
        /\ data.profiles = <<>>
        /\ data.transactions = <<>>
        /\ data.categories = <<>>
        /\ data.incomeSources = <<>>
        /\ data.currencies = DEFAULT_CURRENCIES
        /\ data.currencies # <<>>

\* The page was opened with nothing saved, and its first snapshot has been saved.
C19_Witness ==
    /\ last.op = "init" /\ last.outcome = "none"
    /\ Len(data.currencies) = Len(DEFAULT_CURRENCIES)
    /\ localStorage.item = Stringify(data)

(***************************************************************************)
(* Properties of the category suggestion.                                  *)
(***************************************************************************)
\* The candidates whose name the response gives, compared as the service does.
NamedBy(reply, candidates) ==
    {c \in Range(candidates) : ToLowerCase(Chars(c.name)) = ToLowerCase(Trim(reply.text))}

\* The call came to nothing: no client, a failed call, or no candidate named.
NoSuggestion(reply, candidates) ==
    ~reply.ai \/ reply.failed \/ NamedBy(reply, candidates) = {}

\* The fields of the form that make the transaction.
FormFields(f) == [f EXCEPT !.isSuggesting = FALSE, !.candidates = <<>>]

\* C20: the suggestion is advisory.  When the call settles the in-progress flag is
\* false again, the store is untouched and the form stays open; when it failed or
\* named no candidate every field of the form, a chosen categoryId included, is as
\* it was, so a form that could be submitted still can; when it yields a suggestion
\* the new categoryId is the id of one of the candidates the call was given and the
\* other fields are as they were.
C20_SuggestionIsAdvisory ==
    [][ last'.op = "suggestSettles" =>
          /\ ~form'.isSuggesting
          /\ form'.open
          /\ data' = data
          /\ IF NoSuggestion(last'.reply, form.candidates)
             THEN /\ FormFields(form') = FormFields(form)
                  /\ FormValid(form) => FormValid(form')
             ELSE /\ form'.categoryId \in {c.id : c \in Range(form.candidates)}
                  /\ [FormFields(form') EXCEPT !.categoryId = NoItem]
                        = [FormFields(form) EXCEPT !.categoryId = NoItem] ]_vars

\* A call settled without a suggestion on a form with a category chosen, which is
\* still chosen, and the form can be submitted.
C20_Witness ==
    /\ last.op = "suggestSettles"
    /\ NoSuggestion(last.reply, getProfileData(data, activeProfileId).categories)
    /\ last.reply.ai
    /\ form.categoryId # NoItem
    /\ ~form.isSuggesting
    /\ FormValid(form)
    /\ ENABLED FormSubmit

\* A call settled with a suggestion that replaced the chosen category.
C20_WitnessSuggested ==
    /\ last.op = "suggestSettles"
    /\ ~NoSuggestion(last.reply, getProfileData(data, activeProfileId).categories)
    /\ form.categoryId = getProfileData(data, activeProfileId).categories[2].id
    /\ last.reply.text # Chars("Food")

(***************************************************************************)
(* Profiles and currencies.                                                *)
(***************************************************************************)
CurrencyCodes(d) == {c.code : c \in Range(d.currencies)}

\* A step on which a profile is created: the profile is last'.profile and the
\* store has one profile more.
CreatesProfile ==
    /\ last'.op \in {"signup", "demoLogin", "profileManagerAdd"}
    /\ Len(data'.profiles) = Len(data.profiles) + 1
    /\ data'.profiles[Len(data'.profiles)] = last'.profile

\* C21: every profile created by signup, by demo login or by the profile form of
\* the settings page has, at its creation, the code of a currency of the store as
\* its currencyCode.
C21_NewProfileCurrencyInStore ==
    [][CreatesProfile => last'.profile.currencyCode \in CurrencyCodes(data')]_vars

(***************************************************************************)
(* Referential integrity.                                                  *)
(***************************************************************************)
ProfileIds(d) == {p.id : p \in Range(d.profiles)}

\* C22: every transaction, category and income source names an existing profile
\* and every profile an existing user, also when an import whose file read was
\* started earlier completes after the profile was switched and deleted.
C22_ReferencesExist ==
    /\ \A t \in Range(data.transactions) : t.profileId \in ProfileIds(data)
    /\ \A c \in Range(data.categories) : c.profileId \in ProfileIds(data)
    /\ \A s \in Range(data.incomeSources) : s.profileId \in ProfileIds(data)
    /\ \A p \in Range(data.profiles) : \E u \in Range(data.users) : u.id = p.userId

(***************************************************************************)
(* The values an import commits.                                           *)
(***************************************************************************)
\* The transactions the step appended to the store.
Appended == {data'.transactions[i] : i \in (Len(data.transactions) + 1)..Len(data'.transactions)}

\* C23: every transaction an import commits has a type of TransactionType and a
\* paymentMethod of PaymentMethod; a row whose lower-cased type or paymentMethod
\* is outside these adds nothing.
C23_ImportedValuesInEnums ==
    [][last'.op = "importCSV" =>
          \A t \in Appended : /\ t.type \in {INCOME, EXPENSE}
                              /\ t.paymentMethod \in {"cash", "credit", "bank"}]_vars

(***************************************************************************)
(* A save that succeeds.                                                   *)
(***************************************************************************)
Collections == {"users", "profiles", "transactions", "categories", "incomeSources", "currencies"}

\* C24: after a mutation whose save succeeds the saved item is the whole snapshot
\* the mutation left, all six collections of it, whether or not the saves of the
\* mutations before it failed.
C24_SuccessfulSaveIsWholeSnapshot ==
    [][ /\ ~localStorage.full
        /\ last'.op \in {"signup", "addProfile", "addTransaction", "deleteTransaction"}
        /\ last'.ok
        => /\ localStorage'.item = Stringify(data')
           /\ \A k \in Collections : LoadData(localStorage'.item)[k] = data'[k] ]_vars

\* A transaction was added and saved after the save of the transaction added before
\* it had failed: the saved item holds both.
C24_Witness ==
    /\ ~localStorage.full
    /\ last.op = "addTransaction"
    /\ last.unsaved
    /\ last.pre.transactions >= 1
    /\ Len(localStorage.item.value.transactions) >= 2
    /\ localStorage.item = Stringify(data)

(***************************************************************************)
(* Currency codes.                                                         *)
(***************************************************************************)
\* C25: no two currencies of the store have the same code.
C25_CurrencyCodesUnique ==
    \A i, j \in DOMAIN data.currencies :
        data.currencies[i].code = data.currencies[j].code => i = j

(***************************************************************************)
(* Admins under the settings screen's guards.                              *)
(***************************************************************************)
Admins(d) == {u \in Range(d.users) : u.role = ADMIN}

\* C26: through signup, demo login, login, logout and UserManager's add, delete
\* and role change, a store with at least one user has at least one admin.
C26_SomeAdminWhileUsers ==
    data.users # <<>> => Admins(data) # {}

\* The only admin left is one that another admin promoted, and then that admin
\* was deleted or demoted by it.
C26_Witness ==
    /\ last.op \in {"userManagerDelete", "userManagerUpdateRole"}
    /\ last.ok
    /\ Cardinality(Admins(data)) = 1
    /\ currentUser \in Admins(data)
    /\ currentUser.id # 1

(***************************************************************************)
(* Attachments added in the details view.                                  *)
(***************************************************************************)
Stored(d, id) == CHOOSE t \in Range(d.transactions) : t.id = id

\* C27: adding an attachment in the details view appends exactly one attachment to
\* the list the transaction has in the store at that moment and leaves its other
\* fields as they are stored: attachments added one after the other without closing
\* the view are all kept, and an edit made while the file was read is not undone.
C27_AttachmentAppendsToStored ==
    [][ /\ last'.op = "addAttachment"
        /\ \E t \in Range(data.transactions) : t.id = last'.tx.id
        => LET cur == Stored(data, last'.tx.id)
               new == Stored(data', last'.tx.id)
           IN /\ Len(new.attachments) = Len(cur.attachments) + 1
              /\ SubSeq(new.attachments, 1, Len(cur.attachments)) = cur.attachments
              /\ [new EXCEPT !.attachments = <<>>] = [cur EXCEPT !.attachments = <<>>] ]_vars

(***************************************************************************)
(* The demo data.                                                          *)
(***************************************************************************)
\* The transactions of d that are not of the profile.
OfOthers(d, profileId) ==
    LET other(t) == t.profileId # profileId
    IN SelectSeq(d.transactions, other)

\* C28: after a demo login, whether or not the demo user and the Demo Profile
\* existed before, every transaction of the Demo Profile names a category or an
\* income source of the Demo Profile that is in the store, and the transactions
\* of the other profiles are as before.
C28_DemoTransactionsReferItems ==
    [][ last'.op = "demoLogin"
        => /\ \A t \in Range(data'.transactions) :
                 t.profileId = last'.profile.id =>
                    /\ t.type = EXPENSE =>
                          \E c \in Range(data'.categories) :
                              c.id = t.categoryId /\ c.profileId = last'.profile.id
                    /\ t.type = INCOME =>
                          \E s \in Range(data'.incomeSources) :
                              s.id = t.sourceId /\ s.profileId = last'.profile.id
           /\ OfOthers(data', last'.profile.id) = OfOthers(data, last'.profile.id) ]_vars

(***************************************************************************)
(* The active profile after a login.                                       *)
(***************************************************************************)
\* The session has an active profile, owned by the logged-in user.
HasOwnActiveProfile ==
    \E p \in Range(data.profiles) : p.id = activeProfileId /\ p.userId = currentUser.id

\* C29: after a successful login (signup, password login, demo login), also of an
\* account an admin created in the settings, the session eventually has an active
\* profile owned by the logged-in user: it does not show "Loading profile..."
\* for ever.
C29_LoginReachesActiveProfile ==
    (currentUser # NoUser) ~> HasOwnActiveProfile

(***************************************************************************)
(* A password reset.                                                       *)
(***************************************************************************)
\* C30: resetPassword fails and leaves the store as it is when no user has the
\* email; when it succeeds, a login with the same email and the reset password
\* is accepted, and no user but the one logged in by it was changed.
C30_ResetThenLoginSucceeds ==
    [][ last'.op = "resetPassword"
        => /\ (\A u \in Range(data.users) : ToLowerCase(u.email) # ToLowerCase(last'.email))
                 => ~last'.ok /\ data' = data
           /\ last'.ok =>
                 LET user == LoginUser(data', last'.email, PasswordReset)
                 IN /\ user # NoUser
                    /\ \A i \in DOMAIN data.users :
                          data'.users[i] # data.users[i] => data'.users[i].id = user.id
                    /\ [data' EXCEPT !.users = data.users] = data ]_vars

====
